---- MODULE Spec2Model ----
(***************************************************************************)
(* A model of the TML template engine (mhalikosen/tml): the component      *)
(* tree renderer of src/src/engine.ts (class TmlEngine, buildInlineAssets, *)
(* injectAssets), the path check of src/src/helpers.ts and the directive   *)
(* compiler of src/src/compiler.ts.                                        *)
(*                                                                         *)
(* Strings are TLA+ strings; indices follow JavaScript (0-based, -1 for    *)
(* "not found") so that the operators read like the source.                *)
(***************************************************************************)
EXTENDS Integers, Sequences, FiniteSets, Bags, TLC

VARIABLES
    \* ---- TmlEngine fields (engine.ts 385-408)
    cacheEnabled, templateCache, parsedCache, cssRegistry, jsRegistry, renderDepth,
    \* ---- module state of engine.ts: the asset build cache (engine.ts 371)
    assetCache,
    \* ---- the render in progress: the call stack of renderComponent /
    \*      children / head closures, the page's collector, the error in flight
    phase, mode, stack, collector, error,
    \* ---- what the caller of the last top-level call observes: renderPage's
    \*      result or thrown error, the invocations of renderFile's callback,
    \*      the console.warn lines
    pageResult, callbacks, warnings,
    \* ---- history: files touched through fs, paths rendered by this page
    \*      render, page renders started, the last renderComponent call
    fsAccess, rendered, renders, lastCall, page,
    \* ---- the last buildInlineAssets call and the last injectAssets call:
    \*      arguments and results
    inlineAssets, injected,
    \* ---- compile(template, filePath) in progress (compiler.ts 263-481): its
    \*      locals, the index i of the line the loop is at, and its outcome
    lines, lineIndex, blockStack, codeParts, inlineJsBuffer, inlineJsStartLine,
    compiled,
    \* ---- a call of the compiled routine in progress (compiler.ts 456-473):
    \*      its arguments, scopes, position and outcome
    run,
    \* ---- the last parse(source) call (parser.ts 3-17): argument and result
    parseCall,
    \* ---- the renderFile calls suspended at  await buildInlineAssets(collector)
    \*      (engine.ts 449): the page, html and collector each of them holds
    awaiting,
    \* ---- the parseInterpolations(line) call in progress (compiler.ts 105-222):
    \*      its argument, what is left of it and the segments pushed so far
    scan

engineVars == <<cacheEnabled, templateCache, parsedCache, cssRegistry, jsRegistry,
                renderDepth, assetCache, phase, mode, stack, collector, error,
                pageResult, callbacks, warnings, fsAccess, rendered, renders, lastCall,
                page>>

assetVars == <<inlineAssets, injected>>

compileVars == <<lines, lineIndex, blockStack, codeParts, inlineJsBuffer,
                 inlineJsStartLine, compiled>>

\* what a step inside a page render leaves alone
callVars == <<run, parseCall, awaiting, scan>>

\* no parseInterpolations call is in progress
NoScan == [text |-> "", remaining |-> "", segments |-> <<>>, done |-> TRUE]

steadyVars == <<page, inlineAssets, injected, compileVars, callVars>>

vars == <<engineVars, assetVars, compileVars, callVars>>

-----------------------------------------------------------------------------
(* String helpers with JavaScript's conventions *)

Min(S) == CHOOSE x \in S : \A y \in S : x <= y

\* String.prototype.slice(a, b) and slice(a)
Slice(s, a, b) == SubSeq(s, a + 1, b)
SliceFrom(s, a) == SubSeq(s, a + 1, Len(s))

StartsWith(s, p) == Len(s) >= Len(p) /\ SubSeq(s, 1, Len(p)) = p
EndsWith(s, p) == Len(s) >= Len(p) /\ SubSeq(s, Len(s) - Len(p) + 1, Len(s)) = p

\* String.prototype.indexOf(p, from): 0-based, -1 when absent
IndexOfFrom(s, p, from) ==
    LET hits == {i \in from..(Len(s) - Len(p)) : SubSeq(s, i + 1, i + Len(p)) = p}
    IN IF hits = {} THEN -1 ELSE Min(hits)
IndexOf(s, p) == IndexOfFrom(s, p, 0)

CharAt(s, i) == SubSeq(s, i + 1, i + 1)

WhiteSpace == {" ", "\t", "\n", "\r"}

\* String.prototype.trim()
Trim(s) ==
    LET keep == {i \in 1..Len(s) : SubSeq(s, i, i) \notin WhiteSpace}
    IN IF keep = {} THEN ""
       ELSE SubSeq(s, Min(keep), CHOOSE x \in keep : \A y \in keep : y <= x)

\* Array.prototype.join(sep) on a sequence of strings
RECURSIVE Join(_, _)
Join(parts, sep) ==
    IF parts = <<>> THEN ""
    ELSE IF Len(parts) = 1 THEN parts[1]
    ELSE parts[1] \o sep \o Join(Tail(parts), sep)

\* String.prototype.split(sep) for a one-character separator
RECURSIVE Split(_, _)
Split(s, sep) ==
    LET i == IndexOf(s, sep)
    IN IF i = -1 THEN <<s>>
       ELSE <<Slice(s, 0, i)>> \o Split(SliceFrom(s, i + 1), sep)

-----------------------------------------------------------------------------
(* A JavaScript Map: a sequence of <<key, value>> in insertion order *)

EmptyMap == <<>>
MapKeys(m) == [i \in 1..Len(m) |-> m[i][1]]
MapValues(m) == [i \in 1..Len(m) |-> m[i][2]]
MapKeySet(m) == {m[i][1] : i \in 1..Len(m)}
MapHas(m, k) == k \in MapKeySet(m)
MapGet(m, k) == m[CHOOSE i \in 1..Len(m) : m[i][1] = k][2]
MapSize(m) == Len(m)

\* Map.prototype.set: an existing key keeps its place and takes the new value
MapSet(m, k, v) ==
    IF MapHas(m, k)
    THEN [i \in 1..Len(m) |-> IF m[i][1] = k THEN <<k, v>> ELSE m[i]]
    ELSE Append(m, <<k, v>>)

-----------------------------------------------------------------------------
(* Errors (compiler.ts 3-25) *)

NoError == [name |-> "", message |-> "", filePath |-> "", line |-> 0]

\* a plain  new Error(message)
PlainError(msg) == [name |-> "Error", message |-> msg, filePath |-> "", line |-> 0]

TmlCompileError(msg, fp, ln) ==
    [name |-> "TmlCompileError", message |-> msg \o " at " \o fp \o ":" \o ToString(ln),
     filePath |-> fp, line |-> ln]

TmlRenderError(msg, fp, ln) ==
    [name |-> "TmlRenderError", message |-> msg \o " at " \o fp \o ":" \o ToString(ln),
     filePath |-> fp, line |-> ln]

IsStructured(e) == e.name \in {"TmlCompileError", "TmlRenderError"}

-----------------------------------------------------------------------------
(* Path resolution (helpers.ts 37-51, node:path) *)

\* path.resolve's normalisation of the segments of an absolute path
RECURSIVE NormalizeSegs(_, _)
NormalizeSegs(segs, acc) ==
    IF segs = <<>> THEN acc
    ELSE LET h == Head(segs)
         IN NormalizeSegs(Tail(segs),
               IF h = "" \/ h = "." THEN acc
               ELSE IF h = ".." THEN (IF acc = <<>> THEN acc ELSE SubSeq(acc, 1, Len(acc) - 1))
               ELSE Append(acc, h))

\* path.resolve(base, p) for an absolute base
PathResolve(base, p) ==
    LET full == IF StartsWith(p, "/") THEN p ELSE base \o "/" \o p
    IN "/" \o Join(NormalizeSegs(Split(full, "/"), <<>>), "/")

PathSep == "/"

\* safePath with the prefix test made without the path separator
SafePathNoSep(baseDir, name) ==
    LET resolved == PathResolve(baseDir, name \o ".tml")
        normalizedBase == PathResolve(baseDir, "")
    IN IF ~StartsWith(resolved, normalizedBase)
       THEN [thrown |-> PlainError("Path traversal detected: \"" \o name
                                   \o "\" resolves outside of views directory"),
             resolved |-> resolved]
       ELSE [thrown |-> NoError, resolved |-> resolved]

\* safePath(baseDir, name): [thrown, resolved]
SafePath(baseDir, name) ==
    LET resolved == PathResolve(baseDir, name \o ".tml")
        normalizedBase == PathResolve(baseDir, "")
    IN IF ~StartsWith(resolved, normalizedBase \o PathSep) /\ resolved # normalizedBase
       THEN [thrown |-> PlainError("Path traversal detected: \"" \o name
                                   \o "\" resolves outside of views directory"),
             resolved |-> resolved]
       ELSE [thrown |-> NoError, resolved |-> resolved]

-----------------------------------------------------------------------------
(* The files on disk.  A component file is held in parsed form: the routine *)
(* compile() emits for its <template> block (one instruction per emitted    *)
(* statement), its <style> and <script> text, and the CompileError compile() *)
(* raises for the template, if any.                                         *)

MAX_RENDER_DEPTH == 100

ViewsDir == "/v"

\* one statement of a compiled routine (compiler.ts 301-432):
\*   text      __out += '<arg>\n';
\*   ctx       __out += __escape($context.<arg>) + '\n';
\*   if        if (<arg>) { <body> }
\*   each      { var $index = 0; for (var item of (<arg>)) { <body> $index++; } }
\*   include   __out += __include('<arg>', __data, __context);
\*   component __out += __component('<arg>', __data, __context, function() { <body> });
\*   children  __out += (__children || '');
\*   head      __head(function() { <body> });
\*   provide   __context = Object.assign({}, __context, { <arg>: "dark" }); $context = __context;
\*   throw     an inline script or expression that raises a plain Error
Ins(op, arg, body) == [op |-> op, arg |-> arg, body |-> body]

Component(routine, style, script) ==
    [routine |-> routine, style |-> style, script |-> script, compileError |-> NoError]

\* a template that does not compile: "@if(x)" alone (compiler.ts 443-450)
Uncompilable(path) ==
    [routine |-> <<>>, style |-> "", script |-> "",
     compileError |-> TmlCompileError("Unclosed @if block - missing @end", path, 1)]

DiskBase ==
    "/v/page.tml" :> Component(
        << Ins("text", "<head></head><body>", <<>>),
           Ins("include", "badge", <<>>),
           Ins("if", "show", << Ins("component", "card",
                                    << Ins("include", "badge", <<>>) >>) >>),
           Ins("each", "items", << Ins("include", "badge", <<>>) >>),
           Ins("text", "</body>", <<>>) >>,
        "p{}", "")
 @@ "/v/badge.tml" :> Component(<< Ins("ctx", "theme", <<>>) >>, ".b{}", "b()")
 @@ "/v/card.tml" :> Component(
        << Ins("provide", "theme", <<>>),
           Ins("head", "", << Ins("text", " <meta> ", <<>>) >>),
           Ins("children", "", <<>>) >>,
        ".c{}", "")
 @@ "/v/nohead.tml" :> Component(
        << Ins("head", "", << Ins("text", "<meta>", <<>>) >>),
           Ins("if", "show", << Ins("text", "</body>", <<>>) >>) >>,
        "", "n()")
 @@ "/v/a.tml" :> Component(<< Ins("include", "b", <<>>) >>, "", "")
 @@ "/v/b.tml" :> Component(<< Ins("include", "a", <<>>) >>, "", "")
 @@ "/v/wrap.tml" :> Component(
        << Ins("component", "card", << Ins("include", "boom", <<>>) >>) >>, ".w{}", "")
 @@ "/v/boom.tml" :> Component(
        << Ins("include", "badge", <<>>), Ins("throw", "x is not defined", <<>>) >>,
        ".x{}", "")
 @@ "/v/trav.tml" :> Component(
        << Ins("if", "show", << Ins("include", "../v2/s", <<>>) >>),
           Ins("include", "../secret", <<>>) >>, "", "")
 @@ "/v/miss.tml" :> Component(<< Ins("include", "nope", <<>>) >>, "", "")
 \* components that provide context, read it and hand children on
 @@ "/v/probe.tml" :> Component(
        << Ins("ctx", "theme", <<>>), Ins("ctx", "lang", <<>>) >>, "", "")
 @@ "/v/ctx.tml" :> Component(
        << Ins("include", "probe", <<>>),
           Ins("if", "show", << Ins("provide", "theme", <<>>) >>),
           Ins("ctx", "theme", <<>>),
           Ins("each", "items", << Ins("include", "probe", <<>>) >>),
           Ins("component", "card", << Ins("include", "probe", <<>>) >>) >>,
        "", "")
 @@ "/v/prov.tml" :> Component(
        << Ins("provide", "lang", <<>>), Ins("include", "probe", <<>>) >>, "", "")
 @@ "/v/par.tml" :> Component(
        << Ins("provide", "theme", <<>>),
           Ins("include", "prov", <<>>),
           Ins("ctx", "lang", <<>>),
           Ins("include", "probe", <<>>),
           Ins("component", "prov", << Ins("ctx", "lang", <<>>) >>),
           Ins("include", "probe", <<>>) >>,
        "", "")
 @@ "/v/slot.tml" :> Component(
        << Ins("text", "[", <<>>), Ins("children", "", <<>>), Ins("text", "]", <<>>) >>,
        "", "")
 @@ "/v/box.tml" :> Component(
        << Ins("children", "", <<>>), Ins("include", "slot", <<>>) >>, "", "")
 @@ "/v/kid.tml" :> Component(
        << Ins("component", "box", << Ins("text", "K", <<>>) >>),
           Ins("include", "slot", <<>>) >>,
        "", "")
 @@ "/v/incbad.tml" :> Component(<< Ins("include", "bad", <<>>) >>, "", "")
 \* a page that hands a block with a component in it to card, and a block to
 \* badge, which has no @children
 @@ "/v/deck.tml" :> Component(
        << Ins("text", "D", <<>>),
           Ins("component", "card", << Ins("text", "in", <<>>),
                                       Ins("include", "badge", <<>>) >>),
           Ins("component", "badge", << Ins("text", "lost", <<>>) >>) >>,
        ".d{}", "")
 \* a page with two @head blocks that renders tag twice, and tag, whose head
 \* content depends on the context
 @@ "/v/heads.tml" :> Component(
        << Ins("text", "<head></head>", <<>>),
           Ins("head", "", << Ins("text", "<a>", <<>>) >>),
           Ins("head", "", << Ins("text", "<b>", <<>>) >>),
           Ins("include", "tag", <<>>),
           Ins("provide", "theme", <<>>),
           Ins("include", "tag", <<>>) >>,
        "", "")
 @@ "/v/tag.tml" :> Component(
        << Ins("head", "", << Ins("text", "<t>", <<>>), Ins("ctx", "theme", <<>>) >>) >>,
        "", "")
 \* files outside the views directory
 @@ "/secret.tml" :> Component(<< Ins("text", "top secret", <<>>) >>, ".s{}", "")
 @@ "/v2/s.tml" :> Component(<< Ins("text", "sibling", <<>>) >>, "", "")

\* configure() with cache: true compiles every template of the views directory
\* (engine.ts 631-634), so an engine with the cache enabled exists only over
\* templates that compile
Disk == IF cacheEnabled THEN DiskBase
        ELSE DiskBase @@ "/v/bad.tml" :> Uncompilable("bad")

\* fs.existsSync / fs.readFileSync + parse
ExistsSync(fullPath) == fullPath \in DOMAIN Disk
ReadParsed(fullPath) == Disk[fullPath]

\* scanDirectory's key of a file: path.relative(viewsDir, fullPath) without ".tml"
RelativeKey(fullPath) == Slice(fullPath, Len(ViewsDir) + 1, Len(fullPath) - 4)

\* the paths a caller may hand to renderPage / renderFile
PagePaths == {"page", "nohead", "a", "wrap", "trav", "miss", "bad",
              "../secret", "sub/../badge"}

\* pages whose components provide and read context, pass children on, or fail
TreePages == {"ctx", "par", "kid", "incbad", "wrap", "deck", "heads"}

\* the render data: `show` and the number of elements of the array `items`
DataValues == [show : BOOLEAN, items : {2}, hasChildren : {FALSE}, children : {""}]

-----------------------------------------------------------------------------
(* escapeHtml (helpers.ts 3-23) *)

HtmlEscapeMap(c) ==
    CASE c = "&" -> "&amp;"
      [] c = "<" -> "&lt;"
      [] c = ">" -> "&gt;"
      [] c = "\"" -> "&quot;"
      [] c = "'" -> "&#39;"
      [] OTHER -> c

\* str.replace(/[&<>"']/g, ...): one pass over the characters of str
RECURSIVE EscapeStr(_)
EscapeStr(str) ==
    IF str = "" THEN ""
    ELSE HtmlEscapeMap(CharAt(str, 0)) \o EscapeStr(SliceFrom(str, 1))

\* a value is [defined, str]: null / undefined escape to ""
Undefined == [defined |-> FALSE, str |-> ""]
Str(s) == [defined |-> TRUE, str |-> s]
EscapeHtml(value) == IF ~value.defined THEN "" ELSE EscapeStr(value.str)

-----------------------------------------------------------------------------
(* Asset building and injection (engine.ts 369-383, 688-785) *)

NewCollector == [styles |-> EmptyMap, scripts |-> EmptyMap, headTags |-> EmptyMap]

NoAssets == [headTag |-> "", cssTag |-> "", jsTag |-> ""]

KeyParts(prefix, m) ==
    [i \in 1..Len(m) |-> prefix \o ":" \o m[i][1] \o ":" \o m[i][2]]

BuildAssetCacheKey(col) ==
    Join(KeyParts("s", col.styles) \o KeyParts("j", col.scripts)
         \o KeyParts("h", col.headTags), "|")

\* the loop with `seen` holding the contents as they were contributed
RECURSIVE UniqueTagsUntrimmed(_, _, _)
UniqueTagsUntrimmed(tags, seen, uniqueTags) ==
    IF tags = <<>> THEN uniqueTags
    ELSE LET trimmed == Trim(Head(tags))
         IN IF trimmed # "" /\ Head(tags) \notin seen
            THEN UniqueTagsUntrimmed(Tail(tags), seen \cup {Head(tags)},
                                     Append(uniqueTags, trimmed))
            ELSE UniqueTagsUntrimmed(Tail(tags), seen, uniqueTags)

\* the loop of engine.ts 704-710 over the head tag values, in Map order
RECURSIVE UniqueTags(_, _, _)
UniqueTags(tags, seen, uniqueTags) ==
    IF tags = <<>> THEN uniqueTags
    ELSE LET trimmed == Trim(Head(tags))
         IN IF trimmed # "" /\ trimmed \notin seen
            THEN UniqueTags(Tail(tags), seen \cup {trimmed}, Append(uniqueTags, trimmed))
            ELSE UniqueTags(Tail(tags), seen, uniqueTags)

BuildHeadTag(headTags) ==
    IF MapSize(headTags) > 0
    THEN Join(UniqueTags(MapValues(headTags), {}, <<>>), "\n")
    ELSE ""

\* esbuild is an external transformer: its output is taken to be the input
\* text; the code trims what it returns (engine.ts 738, 753) and esbuild's
\* iife format wraps a script in a function call
MinifyCSSWithEsbuild(css) == Trim(css)
BundleScript(js) == "(()=>{" \o Trim(js) \o "})();"

BuildCssTag(styles) ==
    IF MapSize(styles) > 0
    THEN "<style>" \o MinifyCSSWithEsbuild(Join(MapValues(styles), "\n")) \o "</style>"
    ELSE ""

BuildJsTag(scripts) ==
    IF MapSize(scripts) > 0
    THEN "<script>"
         \o Join([i \in 1..Len(scripts) |-> BundleScript(scripts[i][2])], "\n")
         \o "</script>"
    ELSE ""

\* buildInlineAssets(collector) against the asset cache `cache`:
\* [assets, cache, built] where built says the tags were built by this call
BuildInlineAssets(cache, col) ==
    LET cacheKey == BuildAssetCacheKey(col)
    IN IF MapHas(cache, cacheKey)
       THEN [assets |-> MapGet(cache, cacheKey), cache |-> cache, built |-> FALSE]
       ELSE LET res == [headTag |-> BuildHeadTag(col.headTags),
                        cssTag |-> BuildCssTag(col.styles),
                        jsTag |-> BuildJsTag(col.scripts)]
            IN [assets |-> res, cache |-> MapSet(cache, cacheKey, res), built |-> TRUE]

WarnHead == "[tml] Could not inject head/CSS assets: </head> tag not found"
WarnBody == "[tml] Could not inject JS assets: </body> tag not found"

\* the first half of injectAssets (engine.ts 757-773): [html, warnings]
InjectHead(html, assets) ==
    LET headCloseIndex == IndexOf(html, "</head>")
        headInsert == (IF assets.headTag # "" THEN assets.headTag \o "\n" ELSE "")
                      \o (IF assets.cssTag # "" THEN assets.cssTag \o "\n" ELSE "")
    IN IF headCloseIndex # -1
       THEN [html |-> IF headInsert # ""
                      THEN Slice(html, 0, headCloseIndex) \o headInsert
                           \o SliceFrom(html, headCloseIndex)
                      ELSE html,
             warnings |-> <<>>]
       ELSE [html |-> html,
             warnings |-> IF assets.headTag # "" \/ assets.cssTag # ""
                          THEN <<WarnHead>> ELSE <<>>]

\* the second half (engine.ts 775-784), on the result of the first
InjectBody(result, assets) ==
    IF assets.jsTag # ""
    THEN LET bodyCloseIndex == IndexOf(result, "</body>")
         IN IF bodyCloseIndex # -1
            THEN [html |-> Slice(result, 0, bodyCloseIndex) \o assets.jsTag \o "\n"
                           \o SliceFrom(result, bodyCloseIndex),
                  warnings |-> <<>>]
            ELSE [html |-> result, warnings |-> <<WarnBody>>]
    ELSE [html |-> result, warnings |-> <<>>]

InjectAssets(html, assets) ==
    LET h == InjectHead(html, assets)
        b == InjectBody(h.html, assets)
    IN [html |-> b.html, warnings |-> h.warnings \o b.warnings]

-----------------------------------------------------------------------------
(* TmlEngine: the caches (engine.ts 639-685).  The parsed cache and the     *)
(* template cache are held as their key sets: files do not change, so the   *)
(* value cached under a key is the parse / compilation of that key's file.  *)

MaxRenders == 2

Caches == [templateCache |-> templateCache, parsedCache |-> parsedCache,
           cssRegistry |-> cssRegistry, jsRegistry |-> jsRegistry,
           fsAccess |-> fsAccess]

CachedParsed(componentPath) == ReadParsed(PathResolve(ViewsDir, componentPath \o ".tml"))

\* registerParsed(componentPath, parsed)
RegisterParsed(e, componentPath, parsed) ==
    [e EXCEPT !.parsedCache = @ \cup {componentPath},
              !.cssRegistry = IF parsed.style # ""
                              THEN MapSet(@, componentPath, parsed.style) ELSE @,
              !.jsRegistry = IF parsed.script # ""
                             THEN MapSet(@, componentPath, parsed.script) ELSE @]

\* getParsed past the cache, with sp the result of safePath (engine.ts 655-666)
LoadParsed(e, componentPath, sp) ==
    IF sp.thrown # NoError
    THEN [thrown |-> sp.thrown, parsed |-> Uncompilable(""), e |-> e]
    ELSE IF ~ExistsSync(sp.resolved)
    THEN [thrown |-> PlainError("Template not found: " \o componentPath
                                \o " (resolved to " \o sp.resolved \o ")"),
          parsed |-> Uncompilable(""),
          e |-> [e EXCEPT !.fsAccess = @ \cup {sp.resolved}]]
    ELSE [thrown |-> NoError, parsed |-> ReadParsed(sp.resolved),
          e |-> RegisterParsed([e EXCEPT !.fsAccess = @ \cup {sp.resolved}],
                               componentPath, ReadParsed(sp.resolved))]

\* getParsed(componentPath): [thrown, parsed, e]
GetParsed(e, componentPath) ==
    IF componentPath \in e.parsedCache
    THEN [thrown |-> NoError, parsed |-> CachedParsed(componentPath), e |-> e]
    ELSE LoadParsed(e, componentPath, SafePath(ViewsDir, componentPath))

\* getCompiled past the template cache, with gp the result of getParsed
\* (engine.ts 677-684)
CompileParsed(gp, componentPath) ==
    IF gp.thrown # NoError
    THEN [thrown |-> gp.thrown, routine |-> <<>>, e |-> gp.e]
    ELSE IF gp.parsed.compileError # NoError
    THEN [thrown |-> gp.parsed.compileError, routine |-> <<>>, e |-> gp.e]
    ELSE [thrown |-> NoError, routine |-> gp.parsed.routine,
          e |-> IF cacheEnabled
                THEN [gp.e EXCEPT !.templateCache = @ \cup {componentPath}]
                ELSE gp.e]

\* getCompiled(componentPath): [thrown, routine, e]
GetCompiled(e, componentPath) ==
    IF cacheEnabled /\ componentPath \in e.templateCache
    THEN [thrown |-> NoError, routine |-> CachedParsed(componentPath).routine, e |-> e]
    ELSE CompileParsed(GetParsed(e, componentPath), componentPath)

\* the collector as a list: every render of a path adds its blocks again
CollectAppend(col, componentPath, parsed) ==
    [col EXCEPT !.styles = IF parsed.style # ""
                           THEN Append(@, <<componentPath, parsed.style>>) ELSE @,
                !.scripts = IF parsed.script # ""
                            THEN Append(@, <<componentPath, parsed.script>>) ELSE @]

\* collector.styles.set / collector.scripts.set (engine.ts 491-497)
Collect(col, componentPath, parsed) ==
    [col EXCEPT !.styles = IF parsed.style # ""
                           THEN MapSet(@, componentPath, parsed.style) ELSE @,
                !.scripts = IF parsed.script # ""
                            THEN MapSet(@, componentPath, parsed.script) ELSE @]

\* engine.ts 491-497 with gc, gp the results of getCompiled and getParsed
CollectParsed(gc, gp, col, componentPath) ==
    IF gp.thrown # NoError
    THEN [thrown |-> gp.thrown, routine |-> <<>>, e |-> gp.e, collector |-> col]
    ELSE [thrown |-> NoError, routine |-> gc.routine, e |-> gp.e,
          collector |-> Collect(col, componentPath, gp.parsed)]

\* engine.ts 489-491 with gc the result of getCompiled
AfterCompiled(gc, col, componentPath) ==
    IF gc.thrown # NoError
    THEN [thrown |-> gc.thrown, routine |-> <<>>, e |-> gc.e, collector |-> col]
    ELSE CollectParsed(gc, GetParsed(gc.e, componentPath), col, componentPath)

\* renderComponentInner up to the call of the compiled routine
\* (engine.ts 489-497): [thrown, routine, e, collector]
InnerPrologue(e, col, componentPath) ==
    AfterCompiled(GetCompiled(e, componentPath), col, componentPath)

-----------------------------------------------------------------------------
(* renderComponent (engine.ts 459-480) *)

\* the guard comparing with > and the finally block forgetting the decrement
DepthExceededOffByOne(depth) == depth > MAX_RENDER_DEPTH
DepthExitLeak(depth) == depth

DepthExceeded(depth) == depth >= MAX_RENDER_DEPTH

\* a renderComponent that does not count itself
DepthEnterUncounted(depth) == depth

DepthEnter(depth) == depth + 1
DepthExit(depth) == depth - 1

DepthMessage == "Maximum render depth (" \o ToString(MAX_RENDER_DEPTH)
                \o ") exceeded - possible circular component reference"

\* an activation on the call stack: a compiled routine run by
\* renderComponentInner ("render"), or a children / head closure of it
Frame(kind, path, code, data, ctx, target, callCtx) ==
    [kind |-> kind, path |-> path, code |-> code, out |-> "", data |-> data,
     ctx |-> ctx, target |-> target, callCtx |-> callCtx]

Top == stack[Len(stack)]
Below == SubSeq(stack, 1, Len(stack) - 1)
NextIns == Head(Top.code)
Advanced == [stack EXCEPT ![Len(stack)].code = Tail(@)]
Running(op) == /\ phase = "rendering"
               /\ Top.code # <<>>
               /\ NextIns.op = op

\* a renderComponent that drops its children argument
DataWithoutChildren(data, withChildren, children) == data

\* data with the children argument of renderComponent (engine.ts 499-500)
DataWithChildren(data, withChildren, children) ==
    IF withChildren THEN [data EXCEPT !.hasChildren = TRUE, !.children = children]
    ELSE data

\* renderComponent past the depth guard (engine.ts 474-479), with r the
\* outcome of renderComponentInner's prologue
Enter(r, componentPath, data, context, withChildren, children, base, seen) ==
    /\ templateCache' = r.e.templateCache
    /\ parsedCache' = r.e.parsedCache
    /\ cssRegistry' = r.e.cssRegistry
    /\ jsRegistry' = r.e.jsRegistry
    /\ fsAccess' = r.e.fsAccess
    /\ collector' = r.collector
    /\ IF r.thrown # NoError
       THEN /\ error' = r.thrown
            /\ phase' = "unwinding"
            /\ stack' = base
            /\ rendered' = seen
            /\ renderDepth' = DepthExit(DepthEnter(renderDepth))
       ELSE /\ error' = NoError
            /\ phase' = "rendering"
            /\ stack' = Append(base,
                          Frame("render", componentPath, r.routine,
                                DataWithChildren(data, withChildren, children),
                                context, "", EmptyMap))
            /\ rendered' = seen (+) SetToBag({componentPath})
            /\ renderDepth' = DepthEnter(renderDepth)

\* this.renderComponent(componentPath, data, context, col, children?) called
\* with `base` as the stack of its caller
Call(componentPath, data, context, col, withChildren, children, base, seen) ==
    /\ lastCall' = [path |-> componentPath, depth |-> renderDepth]
    /\ IF DepthExceeded(renderDepth)
       THEN /\ error' = TmlRenderError(DepthMessage, componentPath, 0)
            /\ phase' = "unwinding"
            /\ stack' = base
            /\ collector' = col
            /\ rendered' = seen
            /\ UNCHANGED <<templateCache, parsedCache, cssRegistry, jsRegistry,
                           fsAccess, renderDepth>>
       ELSE Enter(InnerPrologue(Caches, col, componentPath), componentPath, data,
                  context, withChildren, children, base, seen)

-----------------------------------------------------------------------------
(* The state after  new TmlEngine({ viewsDir, cache })  (engine.ts 395-420, *)
(* 611-647): scan() has parsed every .tml file below the views directory.   *)

\* fs.readdirSync order of the files below the views directory
DirListing == << "/v/a.tml", "/v/b.tml", "/v/bad.tml", "/v/badge.tml", "/v/boom.tml",
                 "/v/box.tml", "/v/card.tml", "/v/ctx.tml", "/v/deck.tml",
                 "/v/heads.tml", "/v/incbad.tml", "/v/kid.tml", "/v/miss.tml",
                 "/v/nohead.tml", "/v/page.tml", "/v/par.tml", "/v/probe.tml",
                 "/v/prov.tml", "/v/slot.tml", "/v/tag.tml", "/v/trav.tml",
                 "/v/wrap.tml" >>

RECURSIVE ScanDirectory(_, _)
ScanDirectory(entries, e) ==
    IF entries = <<>> THEN e
    ELSE LET fullPath == Head(entries)
             relativePath == RelativeKey(fullPath)
             reg == RegisterParsed([e EXCEPT !.fsAccess = @ \cup {fullPath}],
                                   relativePath, ReadParsed(fullPath))
         IN IF ~ExistsSync(fullPath) THEN ScanDirectory(Tail(entries), e)
            ELSE ScanDirectory(Tail(entries),
                    IF cacheEnabled
                    THEN [reg EXCEPT !.templateCache = @ \cup {relativePath}]
                    ELSE reg)

NoResult == [status |-> "none", html |-> "", error |-> NoError]
NoCall == [path |-> "", depth |-> 0]
NoPage == [path |-> "", data |-> [show |-> FALSE, items |-> 0, hasChildren |-> FALSE,
                                  children |-> ""]]
NoBuild == [collector |-> NewCollector, assets |-> NoAssets, built |-> FALSE]
NoInjection == [html |-> "", assets |-> NoAssets, done |-> FALSE, result |-> "",
                warnings |-> <<>>]
NotCompiled == [status |-> "none", error |-> NoError]

\* no routine has been called
NoRun == [status |-> "none"]
NoBlocks == [template |-> "", style |-> "", script |-> ""]

\* no parse call was made: `written` is how the source was put together,
\* `pass` counts the calls, `first` is the result of the first of them
NoParse == [source |-> "", done |-> FALSE, result |-> NoBlocks,
            written |-> [order |-> <<>>, blocks |-> <<>>, outside |-> ""],
            pass |-> 0, first |-> NoBlocks]

\* no compile() call is in progress, no routine is running, nothing was parsed
CompileIdle ==
    /\ run = NoRun
    /\ parseCall = NoParse
    /\ awaiting = <<>>
    /\ scan = NoScan
    /\ lines = <<>>
    /\ lineIndex = 0
    /\ blockStack = <<>>
    /\ codeParts = <<>>
    /\ inlineJsBuffer = [open |-> FALSE, parts |-> <<>>]
    /\ inlineJsStartLine = 0
    /\ compiled = NotCompiled

\* a configured engine with no render in progress
Configured ==
    /\ cacheEnabled \in BOOLEAN
    /\ LET e == ScanDirectory(DirListing,
                    [templateCache |-> {}, parsedCache |-> {}, cssRegistry |-> EmptyMap,
                     jsRegistry |-> EmptyMap, fsAccess |-> {}])
       IN /\ templateCache = e.templateCache
          /\ parsedCache = e.parsedCache
          /\ cssRegistry = e.cssRegistry
          /\ jsRegistry = e.jsRegistry
          /\ fsAccess = e.fsAccess
    /\ renderDepth = 0
    /\ assetCache = EmptyMap
    /\ phase = "idle"
    /\ mode = "page"
    /\ stack = <<>>
    /\ error = NoError
    /\ pageResult = NoResult
    /\ callbacks = <<>>
    /\ warnings = <<>>
    /\ rendered = EmptyBag
    /\ renders = 0
    /\ lastCall = NoCall
    /\ page = NoPage

Init ==
    /\ Configured
    /\ collector = NewCollector
    /\ inlineAssets = NoBuild
    /\ injected = NoInjection
    /\ CompileIdle

-----------------------------------------------------------------------------
(* Top-level calls *)

\* renderPage handing the collector of the engine's previous render to
\* renderComponent instead of a new one
RenderPageSharedCollector(pagePath, data) ==
    /\ page' = [path |-> pagePath, data |-> data]
    /\ UNCHANGED <<inlineAssets, injected, compileVars, callVars>>
    /\ phase = "idle"
    /\ renders < MaxRenders
    /\ renders' = renders + 1
    /\ mode' = "page"
    /\ pageResult' = NoResult
    /\ callbacks' = <<>>
    /\ warnings' = <<>>
    /\ Call(pagePath, data, EmptyMap, collector, FALSE, "", <<>>, EmptyBag)
    /\ UNCHANGED <<cacheEnabled, assetCache>>

\* renderPage(pagePath, data) (engine.ts 422-436), context defaulting to {}
RenderPage(pagePath, data) ==
    /\ page' = [path |-> pagePath, data |-> data]
    /\ UNCHANGED <<inlineAssets, injected, compileVars, callVars>>
    /\ phase = "idle"
    /\ renders < MaxRenders
    /\ renders' = renders + 1
    /\ mode' = "page"
    /\ pageResult' = NoResult
    /\ callbacks' = <<>>
    /\ warnings' = <<>>
    /\ Call(pagePath, data, EmptyMap, NewCollector, FALSE, "", <<>>, EmptyBag)
    /\ UNCHANGED <<cacheEnabled, assetCache>>

\* renderFile(filePath, options, callback) up to its await (engine.ts 438-450),
\* for the file of page pagePath on an initialised engine
RenderFile(pagePath, data) ==
    /\ page' = [path |-> pagePath, data |-> data]
    /\ UNCHANGED <<inlineAssets, injected, compileVars, callVars>>
    /\ phase = "idle"
    /\ renders < MaxRenders
    /\ renders' = renders + 1
    /\ mode' = "file"
    /\ pageResult' = NoResult
    /\ callbacks' = <<>>
    /\ warnings' = <<>>
    /\ Call(pagePath, data, EmptyMap, NewCollector, FALSE, "", <<>>, EmptyBag)
    /\ UNCHANGED <<cacheEnabled, assetCache>>

\* the rest of renderFile: buildInlineAssets, injectAssets, callback(null, html)
RenderFileFinish ==
    /\ phase = "assets"
    /\ LET b == BuildInlineAssets(assetCache, collector)
           inj == InjectAssets(pageResult.html, b.assets)
       IN /\ assetCache' = b.cache
          /\ inlineAssets' = [collector |-> collector, assets |-> b.assets,
                              built |-> b.built]
          /\ injected' = [html |-> pageResult.html, assets |-> b.assets, done |-> TRUE,
                          result |-> inj.html, warnings |-> inj.warnings]
          /\ warnings' = warnings \o inj.warnings
          /\ callbacks' = Append(callbacks, [err |-> NoError, rendered |-> inj.html])
    /\ phase' = "idle"
    /\ UNCHANGED <<cacheEnabled, templateCache, parsedCache, cssRegistry, jsRegistry,
                   renderDepth, mode, stack, collector, error, pageResult, fsAccess,
                   rendered, renders, lastCall, page, compileVars, callVars>>

\* clearCache() (engine.ts 573-577)
ClearCache ==
    /\ UNCHANGED steadyVars
    /\ phase = "idle"
    /\ templateCache # {} \/ parsedCache # {} \/ assetCache # EmptyMap
    /\ templateCache' = {}
    /\ parsedCache' = {}
    /\ assetCache' = EmptyMap
    /\ UNCHANGED <<cacheEnabled, cssRegistry, jsRegistry, renderDepth, phase, mode,
                   stack, collector, error, pageResult, callbacks, warnings, fsAccess,
                   rendered, renders, lastCall>>

-----------------------------------------------------------------------------
(* The statements of a compiled routine *)

frameVars == <<cacheEnabled, templateCache, parsedCache, cssRegistry, jsRegistry,
               renderDepth, assetCache, phase, mode, collector, error, pageResult,
               callbacks, warnings, fsAccess, rendered, renders, lastCall, steadyVars>>

\* __out += '<line>\n';
ExecText ==
    /\ Running("text")
    /\ stack' = [Advanced EXCEPT ![Len(stack)].out = @ \o NextIns.arg \o "\n"]
    /\ UNCHANGED frameVars

CtxValue(ctx, key) == IF MapHas(ctx, key) THEN Str(MapGet(ctx, key)) ELSE Undefined

\* __out += __escape($context.<key>) + '\n';
ExecCtx ==
    /\ Running("ctx")
    /\ stack' = [Advanced EXCEPT ![Len(stack)].out =
                    @ \o EscapeHtml(CtxValue(Top.ctx, NextIns.arg)) \o "\n"]
    /\ UNCHANGED frameVars

\* if (<cond>) { <body> }
ExecIf ==
    /\ Running("if")
    /\ stack' = [stack EXCEPT ![Len(stack)].code =
                    IF Top.data[NextIns.arg] THEN NextIns.body \o Tail(@) ELSE Tail(@)]
    /\ UNCHANGED frameVars

\* { var $index = 0; for (var item of (<iterable>)) { <body> $index++; } }
RECURSIVE Repeat(_, _)
Repeat(body, n) == IF n = 0 THEN <<>> ELSE body \o Repeat(body, n - 1)

ExecEach ==
    /\ Running("each")
    /\ stack' = [stack EXCEPT ![Len(stack)].code =
                    Repeat(NextIns.body, Top.data[NextIns.arg]) \o Tail(@)]
    /\ UNCHANGED frameVars

\* __out += (__children || '');  with  __children  read from $children
ExecChildren ==
    /\ Running("children")
    /\ stack' = [Advanced EXCEPT ![Len(stack)].out =
                    @ \o (IF Top.data.hasChildren THEN Top.data.children ELSE "")]
    /\ UNCHANGED frameVars

\* the key added to the object __context refers to, which every activation
\* that was handed that object shares
ProvidedInPlace(stk, key) ==
    [i \in 1..Len(stk) |->
        IF stk[i].ctx = stk[Len(stk)].ctx THEN [stk[i] EXCEPT !.ctx = MapSet(@, key, "dark")]
        ELSE stk[i]]

\* Object.assign({}, __context, { <key>: ... }): a new object, assigned to the
\* __context of the running activation
Provided(stk, key) == [stk EXCEPT ![Len(stk)].ctx = MapSet(@, key, "dark")]

\* __context = Object.assign({}, __context, { <key>: ... }); $context = __context;
ExecProvide ==
    /\ Running("provide")
    /\ stack' = Provided(Advanced, NextIns.arg)
    /\ UNCHANGED frameVars

\* a statement that raises a plain Error
ExecThrow ==
    /\ UNCHANGED steadyVars
    /\ Running("throw")
    /\ error' = PlainError(NextIns.arg)
    /\ phase' = "unwinding"
    /\ UNCHANGED <<cacheEnabled, templateCache, parsedCache, cssRegistry, jsRegistry,
                   renderDepth, assetCache, mode, stack, collector, pageResult,
                   callbacks, warnings, fsAccess, rendered, renders, lastCall>>

\* a handler called with an empty context
HandlerContextEmpty(frame) == EmptyMap

\* the __context argument of  __include(path, data, __context)  and of
\* __component(path, data, __context, function() {...}): the context of the
\* calling activation as it is at the call
HandlerContext(frame) == frame.ctx

\* __include(path, __data, __context): includeHandler (engine.ts 502-513)
ExecInclude ==
    /\ UNCHANGED steadyVars
    /\ Running("include")
    /\ Call(NextIns.arg, Top.data, HandlerContext(Top), collector, FALSE, "", Advanced,
            rendered)
    /\ UNCHANGED <<cacheEnabled, assetCache, mode, pageResult, callbacks, warnings,
                   renders>>

\* __component(path, __data, __context, function() {...}): componentHandler
\* first runs the children closure (engine.ts 515-521)
ExecComponent ==
    /\ Running("component")
    /\ stack' = Append(Advanced,
                       Frame("childrenFn", Top.path, NextIns.body, Top.data, Top.ctx,
                             NextIns.arg, HandlerContext(Top)))
    /\ UNCHANGED frameVars

\* __head(function() {...}): headHandler runs the closure (engine.ts 531-532)
ExecHead ==
    /\ Running("head")
    /\ stack' = Append(Advanced,
                       Frame("headFn", Top.path, NextIns.body, Top.data, Top.ctx,
                             "", Top.ctx))
    /\ UNCHANGED frameVars

\* a closure shares __context with the routine it is written in: what it
\* provided stays provided when it returns
ClosureReturned == [Below EXCEPT ![Len(Below)].ctx = Top.ctx]

\* return __out; of a children closure, then
\* this.renderComponent(compPath, compData, compContext, collector, childrenHtml)
ReturnChildren ==
    /\ UNCHANGED steadyVars
    /\ phase = "rendering"
    /\ Top.kind = "childrenFn"
    /\ Top.code = <<>>
    /\ Call(Top.target, Top.data, Top.callCtx, collector, TRUE, Top.out,
            ClosureReturned, rendered)
    /\ UNCHANGED <<cacheEnabled, assetCache, mode, pageResult, callbacks, warnings,
                   renders>>

\* return __out; of a head closure, then headHandler's
\* if (result) collector.headTags.set(componentPath, result) (engine.ts 533-535)
ReturnHead ==
    /\ UNCHANGED steadyVars
    /\ phase = "rendering"
    /\ Top.kind = "headFn"
    /\ Top.code = <<>>
    /\ collector' = IF Top.out # ""
                    THEN [collector EXCEPT !.headTags = MapSet(@, Top.path, Top.out)]
                    ELSE collector
    /\ stack' = ClosureReturned
    /\ UNCHANGED <<cacheEnabled, templateCache, parsedCache, cssRegistry, jsRegistry,
                   renderDepth, assetCache, phase, mode, error, pageResult, callbacks,
                   warnings, fsAccess, rendered, renders, lastCall>>

\* return __out; of a routine: renderComponentInner returns, renderComponent's
\* finally runs, and the caller appends the result (or renderPage returns)
ReturnRender ==
    /\ UNCHANGED steadyVars
    /\ phase = "rendering"
    /\ Top.kind = "render"
    /\ Top.code = <<>>
    /\ renderDepth' = DepthExit(renderDepth)
    /\ IF Len(stack) = 1
       THEN /\ stack' = <<>>
            /\ pageResult' = [status |-> "returned", html |-> Top.out, error |-> NoError]
            /\ phase' = IF mode = "file" THEN "assets" ELSE "idle"
       ELSE /\ stack' = [Below EXCEPT ![Len(Below)].out = @ \o Top.out]
            /\ UNCHANGED <<pageResult, phase>>
    /\ UNCHANGED <<cacheEnabled, templateCache, parsedCache, cssRegistry, jsRegistry,
                   assetCache, mode, collector, error, callbacks, warnings, fsAccess,
                   rendered, renders, lastCall>>

\* a catch that wraps whatever it catches
CaughtAlwaysWrapped(e, componentPath) == TmlRenderError(e.message, componentPath, 0)

\* the catch of renderComponentInner (engine.ts 547-554)
Caught(e, componentPath) ==
    IF IsStructured(e) THEN e ELSE TmlRenderError(e.message, componentPath, 0)

\* an error leaves the activation on top of the stack: a routine's error goes
\* through the catch of renderComponentInner and the finally of renderComponent
Propagate ==
    /\ UNCHANGED steadyVars
    /\ phase = "unwinding"
    /\ stack # <<>>
    /\ stack' = Below
    /\ IF Top.kind = "render"
       THEN /\ error' = Caught(error, Top.path)
            /\ renderDepth' = DepthExit(renderDepth)
       ELSE UNCHANGED <<error, renderDepth>>
    /\ UNCHANGED <<cacheEnabled, templateCache, parsedCache, cssRegistry, jsRegistry,
                   assetCache, phase, mode, collector, pageResult, callbacks, warnings,
                   fsAccess, rendered, renders, lastCall>>

\* the error reaches the top-level caller: renderPage throws it, renderFile
\* hands it to its callback (engine.ts 454-456)
Fail ==
    /\ UNCHANGED steadyVars
    /\ phase = "unwinding"
    /\ stack = <<>>
    /\ phase' = "idle"
    /\ error' = NoError
    /\ IF mode = "file"
       THEN /\ callbacks' = Append(callbacks, [err |-> error, rendered |-> ""])
            /\ UNCHANGED pageResult
       ELSE /\ pageResult' = [status |-> "threw", html |-> "", error |-> error]
            /\ UNCHANGED callbacks
    /\ UNCHANGED <<cacheEnabled, templateCache, parsedCache, cssRegistry, jsRegistry,
                   renderDepth, assetCache, mode, stack, collector, warnings, fsAccess,
                   rendered, renders, lastCall>>

Next ==
    \/ \E pagePath \in PagePaths, data \in DataValues : RenderPage(pagePath, data)
    \/ \E pagePath \in PagePaths, data \in DataValues : RenderFile(pagePath, data)
    \/ RenderFileFinish
    \/ ClearCache
    \/ ExecText
    \/ ExecCtx
    \/ ExecIf
    \/ ExecEach
    \/ ExecChildren
    \/ ExecProvide
    \/ ExecThrow
    \/ ExecInclude
    \/ ExecComponent
    \/ ExecHead
    \/ ReturnChildren
    \/ ReturnHead
    \/ ReturnRender
    \/ Propagate
    \/ Fail

Spec == Init /\ [][Next]_vars

\* the same engine rendering the pages of TreePages
NextTree ==
    \/ \E pagePath \in TreePages, data \in DataValues : RenderPage(pagePath, data)
    \/ \E pagePath \in TreePages, data \in DataValues : RenderFile(pagePath, data)
    \/ RenderFileFinish
    \/ ClearCache
    \/ ExecText
    \/ ExecCtx
    \/ ExecIf
    \/ ExecEach
    \/ ExecChildren
    \/ ExecProvide
    \/ ExecThrow
    \/ ExecInclude
    \/ ExecComponent
    \/ ExecHead
    \/ ReturnChildren
    \/ ReturnHead
    \/ ReturnRender
    \/ Propagate
    \/ Fail

SpecTree == Init /\ [][NextTree]_vars

\* await buildInlineAssets(collector) (engine.ts 449): renderFile is suspended
\* with its html and collector, and other calls on the engine may run
RenderFileAwait ==
    /\ phase = "assets"
    /\ awaiting' = Append(awaiting, [page |-> page, html |-> pageResult.html,
                                     collector |-> collector])
    /\ phase' = "idle"
    /\ UNCHANGED <<cacheEnabled, templateCache, parsedCache, cssRegistry, jsRegistry,
                   renderDepth, assetCache, mode, stack, collector, error, pageResult,
                   callbacks, warnings, fsAccess, rendered, renders, lastCall, page,
                   assetVars, compileVars, run, parseCall, scan>>

\* a suspended renderFile call is resumed: the rest of it runs next
RenderFileResume ==
    /\ phase = "idle"
    /\ \E i \in 1..Len(awaiting) :
          /\ page' = awaiting[i].page
          /\ pageResult' = [status |-> "returned", html |-> awaiting[i].html,
                            error |-> NoError]
          /\ collector' = awaiting[i].collector
          /\ awaiting' = SubSeq(awaiting, 1, i - 1) \o SubSeq(awaiting, i + 1, Len(awaiting))
    /\ mode' = "file"
    /\ callbacks' = <<>>
    /\ phase' = "assets"
    /\ UNCHANGED <<cacheEnabled, templateCache, parsedCache, cssRegistry, jsRegistry,
                   renderDepth, assetCache, stack, error, warnings, fsAccess, rendered,
                   renders, lastCall, assetVars, compileVars, run, parseCall, scan>>

\* pages rendered while other renderFile calls are suspended: a and b include
\* each other without end, wrap includes a component that throws, the others
\* are nested less than 100 deep and render
ConcurrentPages == {"page", "kid", "a", "wrap"}

NextConcurrent ==
    \/ \E pagePath \in ConcurrentPages, data \in DataValues : RenderPage(pagePath, data)
    \/ \E pagePath \in ConcurrentPages, data \in DataValues : RenderFile(pagePath, data)
    \/ RenderFileFinish
    \/ RenderFileAwait
    \/ RenderFileResume
    \/ ClearCache
    \/ ExecText
    \/ ExecCtx
    \/ ExecIf
    \/ ExecEach
    \/ ExecChildren
    \/ ExecProvide
    \/ ExecThrow
    \/ ExecInclude
    \/ ExecComponent
    \/ ExecHead
    \/ ReturnChildren
    \/ ReturnHead
    \/ ReturnRender
    \/ Propagate
    \/ Fail

SpecConcurrent == Init /\ [][NextConcurrent]_vars

\* what a callback that fails throws
CallbackError == [name |-> "Error", message |-> "callback failed", filePath |-> "",
                  line |-> 0]

\* the rest of renderFile when callback(null, finalHtml) throws: the call stands
\* inside the try block (engine.ts 453), so the catch block hands what was
\* thrown to the callback again (454-456).  Whether that second call throws or
\* not, renderFile makes no further call
RenderFileFinishThrown ==
    /\ phase = "assets"
    /\ LET b == BuildInlineAssets(assetCache, collector)
           inj == InjectAssets(pageResult.html, b.assets)
       IN /\ assetCache' = b.cache
          /\ inlineAssets' = [collector |-> collector, assets |-> b.assets,
                              built |-> b.built]
          /\ injected' = [html |-> pageResult.html, assets |-> b.assets, done |-> TRUE,
                          result |-> inj.html, warnings |-> inj.warnings]
          /\ warnings' = warnings \o inj.warnings
          /\ callbacks' = callbacks \o << [err |-> NoError, rendered |-> inj.html],
                                          [err |-> CallbackError, rendered |-> ""] >>
    /\ phase' = "idle"
    /\ UNCHANGED <<cacheEnabled, templateCache, parsedCache, cssRegistry, jsRegistry,
                   renderDepth, mode, stack, collector, error, pageResult, fsAccess,
                   rendered, renders, lastCall, page, compileVars, callVars>>

\* renderFile calls with callbacks that return and callbacks that throw, for
\* pages that render and a page that fails
CallbackPages == {"page", "nohead", "wrap"}

NextCallback ==
    \/ \E pagePath \in CallbackPages, data \in DataValues : RenderFile(pagePath, data)
    \/ RenderFileFinish
    \/ RenderFileFinishThrown
    \/ ExecText
    \/ ExecCtx
    \/ ExecIf
    \/ ExecEach
    \/ ExecChildren
    \/ ExecProvide
    \/ ExecThrow
    \/ ExecInclude
    \/ ExecComponent
    \/ ExecHead
    \/ ReturnChildren
    \/ ReturnHead
    \/ ReturnRender
    \/ Propagate
    \/ Fail

SpecCallback == Init /\ [][NextCallback]_vars

-----------------------------------------------------------------------------
(* Properties of the renderer, checked under Spec *)

\* the next step of the render in progress is a nested renderComponent call
\* (of an @include, or of an @component whose children closure has returned)
CallPending ==
    /\ phase = "rendering"
    /\ \/ Top.code # <<>> /\ NextIns.op = "include"
       \/ Top.kind = "childrenFn" /\ Top.code = <<>>
PendingPath ==
    IF Top.kind = "childrenFn" /\ Top.code = <<>> THEN Top.target ELSE NextIns.arg

DepthError(componentPath) ==
    [name |-> "TmlRenderError",
     message |-> "Maximum render depth (100) exceeded - possible circular component reference at "
                 \o componentPath \o ":0",
     filePath |-> componentPath, line |-> 0]

RenderFrames == {i \in 1..Len(stack) : stack[i].kind = "render"}

\* C1: the render depth never exceeds 100; a renderComponent call made at
\* depth >= 100 raises the depth RenderError with the called path and line 0
\* and neither loads, compiles nor runs the component (caches, file accesses,
\* collector and the rendered paths stay as they were); a render of the
\* circular page a <-> b can only end with that error
C1_DepthGuard ==
    /\ [](renderDepth <= MAX_RENDER_DEPTH)
    /\ [](Cardinality(RenderFrames) <= MAX_RENDER_DEPTH)
    /\ [][(CallPending /\ renderDepth >= 100)
            => /\ error' = DepthError(PendingPath)
               /\ phase' = "unwinding"
               /\ UNCHANGED <<templateCache, parsedCache, cssRegistry, jsRegistry,
                              fsAccess, collector, rendered, renderDepth>>]_vars
    /\ []((phase = "idle" /\ page.path = "a")
            => /\ pageResult.status # "returned"
               /\ pageResult.status = "threw" => pageResult.error = DepthError("a")
               /\ \A i \in 1..Len(callbacks) : callbacks[i].err = DepthError("a"))

C1_Witness ==
    /\ phase = "idle"
    /\ page.path = "a"
    /\ pageResult.status = "threw"
    /\ pageResult.error = DepthError("a")
    /\ lastCall = [path |-> "a", depth |-> 100]

\* C2: the depth counter equals the number of renderComponent calls in
\* progress at every moment of a render, through returns, failures of nested
\* components and the depth failure itself; so every call leaves it as it
\* found it, and whenever no render is in progress (after a page render has
\* returned or failed, before the next one) it is 0
C2_DepthRestored ==
    /\ renderDepth = Cardinality(RenderFrames)
    /\ phase \in {"idle", "assets"} => renderDepth = 0
    /\ (phase = "unwinding" /\ stack = <<>>) => renderDepth = 0

C2_Witness ==
    /\ phase = "idle"
    /\ renders = 2
    /\ pageResult.status = "threw"
    /\ pageResult.error.filePath = "boom"
    /\ renderDepth = 0

\* C3: however many times a path is rendered within one page render, the
\* collector's styles (scripts) hold exactly one entry for it when its style
\* (script) block is non-empty, and that entry is the block's text
C3_Entries(m, p) == {i \in 1..Len(m) : m[i][1] = p}

C3_OneEntryPerPath ==
    \A p \in BagToSet(rendered) :
        /\ Cardinality(C3_Entries(collector.styles, p))
             = IF CachedParsed(p).style # "" THEN 1 ELSE 0
        /\ Cardinality(C3_Entries(collector.scripts, p))
             = IF CachedParsed(p).script # "" THEN 1 ELSE 0
        /\ \A i \in C3_Entries(collector.styles, p) :
              collector.styles[i][2] = CachedParsed(p).style
        /\ \A i \in C3_Entries(collector.scripts, p) :
              collector.scripts[i][2] = CachedParsed(p).script

C3_Witness ==
    /\ pageResult.status = "returned"
    /\ CopiesIn("badge", rendered) >= 3
    /\ Cardinality(C3_Entries(collector.styles, "badge")) = 1
    /\ Cardinality(C3_Entries(collector.scripts, "badge")) = 1

\* C4: when a top-level render has returned, the keys of collector.styles
\* (scripts) are exactly the paths rendered during this call whose style
\* (script) block is non-empty: nothing is left from an earlier call, nothing
\* comes from a component that was only referenced
C4_FreshCollector ==
    pageResult.status = "returned" =>
        /\ MapKeySet(collector.styles)
             = {p \in BagToSet(rendered) : CachedParsed(p).style # ""}
        /\ MapKeySet(collector.scripts)
             = {p \in BagToSet(rendered) : CachedParsed(p).script # ""}

\* a second render, of the page with its @if branch not taken, after a
\* render that left entries in the engine's previous collector
C4_Witness ==
    /\ phase = "idle"
    /\ mode = "page"
    /\ renders = 2
    /\ pageResult.status = "returned"
    /\ page.path = "page"
    /\ ~page.data.show
    /\ MapKeySet(collector.styles) = {"page", "badge"}
    /\ MapHas(cssRegistry, "card")

\* C5: no path outside the views directory is ever the object of an
\* existence check or a read, none is ever parsed or rendered, and a call
\* whose path resolves outside fails with the 'Path traversal detected' error
\* that quotes the path as it was given
C5_Outside(p) == ~StartsWith(PathResolve(ViewsDir, p \o ".tml"), ViewsDir \o "/")

C5_NoTraversal ==
    /\ \A f \in fsAccess : StartsWith(f, ViewsDir \o "/")
    /\ \A p \in parsedCache \cup BagToSet(rendered) : ~C5_Outside(p)
    /\ (phase = "unwinding" /\ C5_Outside(lastCall.path))
         => /\ StartsWith(error.message,
                          "Path traversal detected: \"" \o lastCall.path \o "\"")
            /\ error.name \in {"Error", "TmlRenderError"}

C5_Witness ==
    /\ phase = "idle"
    /\ page.path = "trav"
    /\ page.data.show
    /\ lastCall.path = "../v2/s"
    /\ pageResult.status = "threw"
    /\ StartsWith(pageResult.error.message, "Path traversal detected: \"../v2/s\"")

\* C6: a render that ran an @head block with non-empty content and produced
\* HTML without a </head> tag is never reported as a success
C6_HeadRequiresHeadTag ==
    \A i \in 1..Len(callbacks) :
        (MapSize(collector.headTags) > 0 /\ IndexOf(pageResult.html, "</head>") = -1)
            => callbacks[i].err # NoError

-----------------------------------------------------------------------------
(* buildInlineAssets on its own (engine.ts 381-383, 688-731): the collector  *)
(* of a finished render is handed to it, any number of times                *)

MaxHeadTags == 3

\* what @head blocks contribute: a line, the same line as a template indents
\* and terminates it, another line, and a block of blank lines
HeadContents == {"<m>", " <m>\n", "<t>", "\n"}

HeadKey(i) == "c" \o ToString(i)

RECURSIVE HeadTagMaps(_)
HeadTagMaps(n) ==
    IF n = 0 THEN {EmptyMap}
    ELSE {Append(m, <<HeadKey(n), c>>) : m \in HeadTagMaps(n - 1), c \in HeadContents}

BuildCollectors ==
    {[styles |-> <<<<"c1", "p{}">>>>, scripts |-> <<<<"c1", "j()">>>>, headTags |-> h] :
        h \in UNION {HeadTagMaps(n) : n \in 0..MaxHeadTags}}

InitBuild ==
    /\ Configured
    /\ collector \in BuildCollectors
    /\ inlineAssets = NoBuild
    /\ injected = NoInjection
    /\ CompileIdle

\* buildInlineAssets(collector)
BuildInlineAssetsCall ==
    /\ phase = "idle"
    /\ LET b == BuildInlineAssets(assetCache, collector)
       IN /\ assetCache' = b.cache
          /\ inlineAssets' = [collector |-> collector, assets |-> b.assets,
                              built |-> b.built]
    /\ UNCHANGED <<cacheEnabled, templateCache, parsedCache, cssRegistry, jsRegistry,
                   renderDepth, phase, mode, stack, collector, error, pageResult,
                   callbacks, warnings, fsAccess, rendered, renders, lastCall, page,
                   injected, compileVars, callVars>>

\* clearAssetCache()
ClearAssetCache ==
    /\ phase = "idle"
    /\ assetCache # EmptyMap
    /\ assetCache' = EmptyMap
    /\ UNCHANGED <<cacheEnabled, templateCache, parsedCache, cssRegistry, jsRegistry,
                   renderDepth, phase, mode, stack, collector, error, pageResult,
                   callbacks, warnings, fsAccess, rendered, renders, lastCall, page,
                   assetVars, compileVars, callVars>>

NextBuild ==
    \/ BuildInlineAssetsCall
    \/ ClearAssetCache

SpecBuild == InitBuild /\ [][NextBuild]_vars

\* the collectors a caller builds assets for, one after the other
MaxBuilds == 101

\* the collector of a page whose only asset is the style of component p<n>
PageCollector(n) ==
    [styles |-> <<<<"p" \o ToString(n), "p{}">>>>, scripts |-> EmptyMap,
     headTags |-> EmptyMap]

\* buildInlineAssets(col) for a collector of the caller's
BuildInlineAssetsOf(col) ==
    /\ phase = "idle"
    /\ collector' = col
    /\ LET b == BuildInlineAssets(assetCache, col)
       IN /\ assetCache' = b.cache
          /\ inlineAssets' = [collector |-> col, assets |-> b.assets, built |-> b.built]
    /\ UNCHANGED <<cacheEnabled, templateCache, parsedCache, cssRegistry, jsRegistry,
                   renderDepth, phase, mode, stack, error, pageResult, callbacks,
                   warnings, fsAccess, rendered, renders, lastCall, page, injected,
                   compileVars, callVars>>

\* the caller asks for the assets of a page it asked for before, or of the
\* next new page
BuildPageAssets ==
    \E n \in 1..MaxBuilds :
        /\ n <= MapSize(assetCache) + 1
        /\ BuildInlineAssetsOf(PageCollector(n))

NextCache ==
    \/ BuildPageAssets
    \/ ClearAssetCache

SpecCache == Init /\ [][NextCache]_vars

\* collectors whose styles differ in paths, in texts, and in where one entry
\* ends and the next begins
MaxEntries == 2

KeyPaths == {"a", "b"}
KeyTexts == {"x", "y", "x|s:b:y"}

RECURSIVE KeyMaps(_)
KeyMaps(n) ==
    IF n = 0 THEN {EmptyMap}
    ELSE KeyMaps(n - 1)
         \cup {Append(m, <<k, t>>) : m \in {mm \in KeyMaps(n - 1) : Len(mm) = n - 1},
                                      k \in KeyPaths, t \in KeyTexts}

KeyCollectors ==
    {[styles |-> m, scripts |-> EmptyMap, headTags |-> EmptyMap] :
        m \in {mm \in KeyMaps(MaxEntries) : \A i, j \in 1..Len(mm) : mm[i][1] = mm[j][1] => i = j}}

\* the caller asks for the assets of one of the collectors, two of them
\* between two clearAssetCache calls
BuildKeyedAssets ==
    \E col \in KeyCollectors :
        /\ MapSize(assetCache) < 2
        /\ BuildInlineAssetsOf(col)

NextKey ==
    \/ BuildKeyedAssets
    \/ ClearAssetCache

SpecKey == Init /\ [][NextKey]_vars

\* C7: in the head tag that buildInlineAssets builds, split at the line
\* breaks it joins with, every non-blank trimmed content of the collector's
\* head tags occurs exactly once, nothing else occurs, and the contents stand
\* in the order of their first appearance in the collector
C7_Values == MapValues(inlineAssets.collector.headTags)
C7_Contents == {Trim(C7_Values[i]) : i \in 1..Len(C7_Values)} \ {""}
C7_First(c) == Min({i \in 1..Len(C7_Values) : Trim(C7_Values[i]) = c})
C7_Tags == IF inlineAssets.assets.headTag = "" THEN <<>>
           ELSE Split(inlineAssets.assets.headTag, "\n")

C7_HeadTagsDeduplicated ==
    inlineAssets.built =>
        /\ \A c \in C7_Contents : Cardinality({j \in 1..Len(C7_Tags) : C7_Tags[j] = c}) = 1
        /\ \A j \in 1..Len(C7_Tags) : C7_Tags[j] \in C7_Contents
        /\ \A j, k \in 1..Len(C7_Tags) :
              j < k => C7_First(C7_Tags[j]) < C7_First(C7_Tags[k])

C7_Witness ==
    /\ inlineAssets.built
    /\ C7_Values = <<" <m>\n", "<t>", "<m>">>
    /\ inlineAssets.assets.headTag = "<m>\n<t>"

-----------------------------------------------------------------------------
(* injectAssets on its own (engine.ts 756-785) *)

MaxPieces == 3

HtmlPieces == {"</head>", "</body>", "<p>"}

RECURSIVE HtmlOfPieces(_)
HtmlOfPieces(n) ==
    IF n = 0 THEN {""}
    ELSE {piece \o rest : piece \in HtmlPieces, rest \in HtmlOfPieces(n - 1)}

InjectHtmls == UNION {HtmlOfPieces(n) : n \in 0..MaxPieces}

\* tags as buildInlineAssets produces them; a head block or a style may
\* carry the text "</body>" in a comment or a string
InjectTags ==
    [headTag : {"", "<m>", "<!--</body>-->"},
     cssTag : {"", "<style>a{}</style>", "<style>a{content:'</body>'}</style>"},
     jsTag : {"", "<script>j()</script>"}]

InitInject ==
    /\ Configured
    /\ collector = NewCollector
    /\ inlineAssets = NoBuild
    /\ injected \in {[html |-> h, assets |-> a, done |-> FALSE, result |-> "",
                      warnings |-> <<>>] : h \in InjectHtmls, a \in InjectTags}
    /\ CompileIdle

\* injectAssets(html, assets); console.warn appends to the warnings
InjectAssetsCall ==
    /\ phase = "idle"
    /\ ~injected.done
    /\ LET inj == InjectAssets(injected.html, injected.assets)
       IN /\ injected' = [injected EXCEPT !.done = TRUE, !.result = inj.html,
                                          !.warnings = inj.warnings]
          /\ warnings' = warnings \o inj.warnings
    /\ UNCHANGED <<cacheEnabled, templateCache, parsedCache, cssRegistry, jsRegistry,
                   renderDepth, assetCache, phase, mode, stack, collector, error,
                   pageResult, callbacks, fsAccess, rendered, renders, lastCall, page,
                   inlineAssets, compileVars, callVars>>

NextInject == InjectAssetsCall

SpecInject == InitInject /\ [][NextInject]_vars

C8_HeadAt == IndexOf(injected.html, "</head>")
C8_BodyAt == IndexOf(injected.html, "</body>")
C8_HeadText ==
    IF C8_HeadAt = -1 THEN ""
    ELSE (IF injected.assets.headTag # "" THEN injected.assets.headTag \o "\n" ELSE "")
         \o (IF injected.assets.cssTag # "" THEN injected.assets.cssTag \o "\n" ELSE "")
C8_BodyText ==
    IF C8_BodyAt = -1 \/ injected.assets.jsTag = "" THEN ""
    ELSE injected.assets.jsTag \o "\n"

\* html with `first` inserted at index a and `second` at index b >= a of html
C8_Insert2(html, a, first, b, second) ==
    Slice(html, 0, a) \o first \o Slice(html, a, b) \o second \o SliceFrom(html, b)

C8_Expected ==
    IF C8_HeadAt = -1 /\ C8_BodyAt = -1 THEN injected.html
    ELSE IF C8_HeadAt = -1
    THEN C8_Insert2(injected.html, C8_BodyAt, C8_BodyText, C8_BodyAt, "")
    ELSE IF C8_BodyAt = -1
    THEN C8_Insert2(injected.html, C8_HeadAt, C8_HeadText, C8_HeadAt, "")
    ELSE IF C8_HeadAt < C8_BodyAt
    THEN C8_Insert2(injected.html, C8_HeadAt, C8_HeadText, C8_BodyAt, C8_BodyText)
    ELSE C8_Insert2(injected.html, C8_BodyAt, C8_BodyText, C8_HeadAt, C8_HeadText)

\* C8: the result of injectAssets is html with the head tag and the CSS tag
\* inserted immediately before html's first </head> and the JS tag inserted
\* immediately before html's first </body>, every character of html kept
C8_InsertBeforeClosingTags ==
    injected.done => injected.result = C8_Expected

\* C9: a missing insertion point is reported and skipped: without </head>
\* in html a non-empty head or CSS tag is warned about and not inserted,
\* without </body> a non-empty JS tag is warned about and not inserted, the
\* other insertion is made all the same, and with neither point the result
\* is html
C9_MissingPointSkipped ==
    injected.done =>
        /\ (C8_HeadAt = -1 \/ C8_BodyAt = -1) => injected.result = C8_Expected
        /\ (C8_HeadAt = -1 /\ (injected.assets.headTag # "" \/ injected.assets.cssTag # ""))
              => \E i \in 1..Len(injected.warnings) : injected.warnings[i] = WarnHead
        /\ (C8_BodyAt = -1 /\ injected.assets.jsTag # "")
              => \E i \in 1..Len(injected.warnings) : injected.warnings[i] = WarnBody
        /\ (C8_HeadAt = -1 /\ C8_BodyAt = -1) => injected.result = injected.html

-----------------------------------------------------------------------------
(* The directive patterns of compiler.ts 29-39, each as the test its regular *)
(* expression makes on a trimmed line, with the groups it captures          *)

WordChars ==
    {"a", "b", "c", "d", "e", "f", "g", "h", "i", "j", "k", "l", "m", "n", "o", "p",
     "q", "r", "s", "t", "u", "v", "w", "x", "y", "z", "A", "B", "C", "D", "E", "F",
     "G", "H", "I", "J", "K", "L", "M", "N", "O", "P", "Q", "R", "S", "T", "U", "V",
     "W", "X", "Y", "Z", "0", "1", "2", "3", "4", "5", "6", "7", "8", "9", "_"}

\* .+ : one or more characters, none a line terminator
DotPlus(s) == s # "" /\ \A i \in 0..(Len(s) - 1) : CharAt(s, i) \notin {"\n", "\r"}

\* the index of the first character of s at or after `from` outside `chars`
\* (Len(s) when there is none): where a greedy \w+ or \s* stops
RunEnd(s, from, chars) ==
    Min({i \in from..(Len(s) - 1) : CharAt(s, i) \notin chars} \cup {Len(s)})

NoMatch == [matched |-> FALSE, g1 |-> "", g2 |-> Undefined]

\* /^<open>(.+)<close>$/
MatchWrapped(t, open, close) ==
    IF /\ Len(t) > Len(open) + Len(close)
       /\ StartsWith(t, open)
       /\ EndsWith(t, close)
       /\ DotPlus(Slice(t, Len(open), Len(t) - Len(close)))
    THEN [matched |-> TRUE, g1 |-> Slice(t, Len(open), Len(t) - Len(close)),
          g2 |-> Undefined]
    ELSE NoMatch

DIRECTIVE_IF(t) == MatchWrapped(t, "@if(", ")")
DIRECTIVE_ELSEIF(t) == MatchWrapped(t, "@elseif(", ")")
DIRECTIVE_ELSE(t) == t = "@else"
DIRECTIVE_END(t) == t = "@end"
DIRECTIVE_CHILDREN(t) == t = "@children"
DIRECTIVE_HEAD(t) == t = "@head"
\* a pattern without the $ anchor: the closer anywhere after the opener
INLINE_JS_UNANCHORED(t) ==
    IF StartsWith(t, "<%") /\ IndexOf(SliceFrom(t, 3), "%>") # -1
    THEN [matched |-> TRUE, g1 |-> Slice(t, 2, 3 + IndexOf(SliceFrom(t, 3), "%>")),
          g2 |-> Undefined]
    ELSE NoMatch

INLINE_JS(t) == MatchWrapped(t, "<%", "%>")

\* the rest of /^@each\((\w+)\s+of\s+(.+)\)$/ with w the end of the \w+ run
\* and o the end of the \s+ run after it; the last \s+ gives back a character
\* when nothing would be left for (.+)
EachRest(t, w, o) ==
    IF w > 6 /\ o > w /\ Slice(t, o, o + 2) = "of"
       /\ RunEnd(t, o + 2, WhiteSpace) > o + 2
    THEN IF RunEnd(t, o + 2, WhiteSpace) < Len(t) - 1
         THEN [matched |-> DotPlus(Slice(t, RunEnd(t, o + 2, WhiteSpace), Len(t) - 1)),
               g1 |-> Slice(t, 6, w),
               g2 |-> Str(Slice(t, RunEnd(t, o + 2, WhiteSpace), Len(t) - 1))]
         ELSE [matched |-> RunEnd(t, o + 2, WhiteSpace) = Len(t) - 1
                           /\ Len(t) - 2 > o + 2
                           /\ CharAt(t, Len(t) - 2) \notin {"\n", "\r"},
               g1 |-> Slice(t, 6, w), g2 |-> Str(Slice(t, Len(t) - 2, Len(t) - 1))]
    ELSE NoMatch

DIRECTIVE_EACH(t) ==
    IF StartsWith(t, "@each(") /\ EndsWith(t, ")")
    THEN EachRest(t, RunEnd(t, 6, WordChars),
                  RunEnd(t, RunEnd(t, 6, WordChars), WhiteSpace))
    ELSE NoMatch

\* the rest of /^@<name>\(([^,)]+)(?:\s*,\s*(\{.*\}))?\)$/ with `from` the index
\* after "(" and e the end of the [^,)]+ run
ArgsRest(t, from, e) ==
    IF e = from \/ e >= Len(t) THEN NoMatch
    ELSE IF CharAt(t, e) = ")"
    THEN [matched |-> e = Len(t) - 1, g1 |-> Slice(t, from, e), g2 |-> Undefined]
    ELSE IF /\ EndsWith(t, "})")
            /\ RunEnd(t, e + 1, WhiteSpace) < Len(t) - 2
            /\ CharAt(t, RunEnd(t, e + 1, WhiteSpace)) = "{"
            /\ \A i \in (e + 1)..(Len(t) - 1) : CharAt(t, i) \notin {"\n", "\r"}
    THEN [matched |-> TRUE, g1 |-> Slice(t, from, e),
          g2 |-> Str(Slice(t, RunEnd(t, e + 1, WhiteSpace), Len(t) - 1))]
    ELSE NoMatch

MatchArgs(t, open) ==
    IF StartsWith(t, open)
    THEN ArgsRest(t, Len(open),
                  Min({i \in Len(open)..(Len(t) - 1) : CharAt(t, i) \in {",", ")"}}
                      \cup {Len(t)}))
    ELSE NoMatch

DIRECTIVE_INCLUDE(t) == MatchArgs(t, "@include(")
DIRECTIVE_COMPONENT(t) == MatchArgs(t, "@component(")

\* the rest of /^@provide\((\w+)\s*,\s*(.+)\)$/ with w the end of the \w+ run
\* and c the end of the \s* run after it
ProvideRest(t, w, c) ==
    IF w > 9 /\ c < Len(t) /\ CharAt(t, c) = ","
    THEN IF RunEnd(t, c + 1, WhiteSpace) < Len(t) - 1
         THEN [matched |-> DotPlus(Slice(t, RunEnd(t, c + 1, WhiteSpace), Len(t) - 1)),
               g1 |-> Slice(t, 9, w),
               g2 |-> Str(Slice(t, RunEnd(t, c + 1, WhiteSpace), Len(t) - 1))]
         ELSE [matched |-> RunEnd(t, c + 1, WhiteSpace) = Len(t) - 1
                           /\ Len(t) - 2 > c
                           /\ CharAt(t, Len(t) - 2) \notin {"\n", "\r"},
               g1 |-> Slice(t, 9, w), g2 |-> Str(Slice(t, Len(t) - 2, Len(t) - 1))]
    ELSE NoMatch

DIRECTIVE_PROVIDE(t) ==
    IF StartsWith(t, "@provide(") /\ EndsWith(t, ")")
    THEN ProvideRest(t, RunEnd(t, 9, WordChars),
                     RunEnd(t, RunEnd(t, 9, WordChars), WhiteSpace))
    ELSE NoMatch

-----------------------------------------------------------------------------
(* Interpolations in a text line (compiler.ts 51-261, 483-489) *)

\* findClosingParen's loop at index i; inString is "" for null.  braceDepth
\* is counted by the code and never read
RECURSIVE ClosingParenScan(_, _, _, _)
ClosingParenScan(str, i, parenDepth, inString) ==
    IF i >= Len(str) THEN -1
    ELSE IF inString # ""
    THEN IF CharAt(str, i) = "\\" /\ i + 1 < Len(str)
         THEN ClosingParenScan(str, i + 2, parenDepth, inString)
         ELSE ClosingParenScan(str, i + 1, parenDepth,
                               IF CharAt(str, i) = inString THEN "" ELSE inString)
    ELSE IF CharAt(str, i) \in {"\"", "'"}
    THEN ClosingParenScan(str, i + 1, parenDepth, CharAt(str, i))
    ELSE IF CharAt(str, i) = "("
    THEN ClosingParenScan(str, i + 1, parenDepth + 1, "")
    ELSE IF CharAt(str, i) = ")"
    THEN IF parenDepth - 1 = 0 THEN i
         ELSE ClosingParenScan(str, i + 1, parenDepth - 1, "")
    ELSE ClosingParenScan(str, i + 1, parenDepth, "")

FindClosingParen(str, start) == ClosingParenScan(str, start, 1, "")

\* parseIncludeArgs(content) with commaIndex = content.indexOf(",")
IncludeArgs(content, commaIndex) ==
    IF commaIndex = -1 THEN [path |-> Trim(content), props |-> Undefined]
    ELSE [path |-> Trim(Slice(content, 0, commaIndex)),
          props |-> Str(Trim(SliceFrom(content, commaIndex + 1)))]

ParseIncludeArgs(content) == IncludeArgs(content, IndexOf(content, ","))

\* the search for "@include(" not preceded by a word character
RECURSIVE FindInclude(_, _)
FindInclude(remaining, searchFrom) ==
    IF IndexOfFrom(remaining, "@include(", searchFrom) = -1 THEN -1
    ELSE IF /\ IndexOfFrom(remaining, "@include(", searchFrom) > 0
            /\ CharAt(remaining, IndexOfFrom(remaining, "@include(", searchFrom) - 1)
                 \in WordChars
    THEN FindInclude(remaining, IndexOfFrom(remaining, "@include(", searchFrom) + 1)
    ELSE IndexOfFrom(remaining, "@include(", searchFrom)

\* the search for "@children" neither preceded nor followed by a word character
RECURSIVE FindChildren(_, _)
FindChildren(remaining, searchFrom) ==
    IF IndexOfFrom(remaining, "@children", searchFrom) = -1 THEN -1
    ELSE IF \/ /\ IndexOfFrom(remaining, "@children", searchFrom) > 0
               /\ CharAt(remaining, IndexOfFrom(remaining, "@children", searchFrom) - 1)
                    \in WordChars
            \/ /\ IndexOfFrom(remaining, "@children", searchFrom) + 9 < Len(remaining)
               /\ CharAt(remaining, IndexOfFrom(remaining, "@children", searchFrom) + 9)
                    \in WordChars
    THEN FindChildren(remaining, IndexOfFrom(remaining, "@children", searchFrom) + 1)
    ELSE IndexOfFrom(remaining, "@children", searchFrom)

Segment(type, value, path, props) ==
    [type |-> type, value |-> value, path |-> path, props |-> props]
TextSegment(value) == Segment("text", value, "", Undefined)

\* a sort that leaves "escaped" before "raw" where both start
WinnerKindEscapedFirst(rawIndex, escapedIndex, includeIndex, childrenIndex) ==
    LET pos == Min({rawIndex, escapedIndex, includeIndex, childrenIndex} \ {-1})
    IN IF escapedIndex = pos THEN "escaped"
       ELSE IF rawIndex = pos THEN "raw"
       ELSE IF includeIndex = pos THEN "include"
       ELSE "children"

\* the kind of candidates[0] after the sort: the least position, "raw" before
\* "escaped" where both start
WinnerKind(rawIndex, escapedIndex, includeIndex, childrenIndex) ==
    LET pos == Min({rawIndex, escapedIndex, includeIndex, childrenIndex} \ {-1})
    IN IF rawIndex = pos THEN "raw"
       ELSE IF escapedIndex = pos THEN "escaped"
       ELSE IF includeIndex = pos THEN "include"
       ELSE "children"

RECURSIVE ParseInterpolations(_, _)

\* the branch of the winner at `pos`, with `close` the index of the closing
\* "}}}", "}}" or ")" and segments holding the text before the winner
ParseWinner(remaining, segments, kind, pos, close) ==
    IF kind = "children"
    THEN ParseInterpolations(SliceFrom(remaining, pos + 9),
                             Append(segments, Segment("children", "", "", Undefined)))
    ELSE IF close = -1
    THEN Append(segments, TextSegment(SliceFrom(remaining, pos)))
    ELSE IF kind = "raw"
    THEN ParseInterpolations(SliceFrom(remaining, close + 3),
            Append(segments, Segment("raw", Trim(Slice(remaining, pos + 3, close)),
                                     "", Undefined)))
    ELSE IF kind = "escaped"
    THEN ParseInterpolations(SliceFrom(remaining, close + 2),
            Append(segments, Segment("escaped", Trim(Slice(remaining, pos + 2, close)),
                                     "", Undefined)))
    ELSE ParseInterpolations(SliceFrom(remaining, close + 1),
            Append(segments,
                   Segment("include", "",
                           ParseIncludeArgs(Slice(remaining, pos + 9, close)).path,
                           ParseIncludeArgs(Slice(remaining, pos + 9, close)).props)))

ParseCandidate(remaining, segments, kind, pos) ==
    ParseWinner(remaining,
                IF pos > 0 THEN Append(segments, TextSegment(Slice(remaining, 0, pos)))
                ELSE segments,
                kind, pos,
                CASE kind = "raw" -> IndexOfFrom(remaining, "}}}", pos + 3)
                  [] kind = "escaped" -> IndexOfFrom(remaining, "}}", pos + 2)
                  [] kind = "include" -> FindClosingParen(remaining, pos + 9)
                  [] OTHER -> 0)

ParseCandidates(remaining, segments, rawIndex, escapedIndex, includeIndex, childrenIndex) ==
    IF {rawIndex, escapedIndex, includeIndex, childrenIndex} = {-1}
    THEN Append(segments, TextSegment(remaining))
    ELSE ParseCandidate(remaining, segments,
            WinnerKind(rawIndex, escapedIndex, includeIndex, childrenIndex),
            Min({rawIndex, escapedIndex, includeIndex, childrenIndex} \ {-1}))

\* parseInterpolations(text): one turn of its while loop per call
ParseInterpolations(remaining, segments) ==
    IF Len(remaining) = 0 THEN segments
    ELSE ParseCandidates(remaining, segments, IndexOf(remaining, "{{{"),
                         IndexOf(remaining, "{{"), FindInclude(remaining, 0),
                         FindChildren(remaining, 0))

\* str.replace(/<ch>/g, by) for a single character
RECURSIVE ReplaceChar(_, _, _)
ReplaceChar(str, ch, by) ==
    IF str = "" THEN ""
    ELSE (IF CharAt(str, 0) = ch THEN by ELSE CharAt(str, 0))
         \o ReplaceChar(SliceFrom(str, 1), ch, by)

EscapeJsString(str) ==
    ReplaceChar(ReplaceChar(ReplaceChar(ReplaceChar(str, "\\", "\\\\"), "'", "\\'"),
                            "\r", "\\r"),
                "\n", "\\n")

SegmentCode(segment) ==
    CASE segment.type = "text" -> "'" \o EscapeJsString(segment.value) \o "'"
      [] segment.type = "escaped" -> "__escape(" \o segment.value \o ")"
      [] segment.type = "raw" -> "(" \o segment.value \o ")"
      [] segment.type = "include" ->
            IF segment.props.defined /\ segment.props.str # ""
            THEN "__include('" \o segment.path \o "', Object.assign({}, __data, "
                 \o segment.props.str \o "), __context)"
            ELSE "__include('" \o segment.path \o "', __data, __context)"
      [] OTHER -> "(__children || '')"

\* compileLineWithInterpolations with the segments of the line
SegmentsCode(segments) ==
    IF Len(segments) = 1 /\ segments[1].type = "text"
    THEN "__out += '" \o EscapeJsString(segments[1].value) \o "\\n';"
    ELSE "__out += "
         \o Join([i \in 1..Len(segments) |-> SegmentCode(segments[i])], " + ")
         \o " + '\\n';"

CompileLineWithInterpolations(line) == SegmentsCode(ParseInterpolations(line, <<>>))

-----------------------------------------------------------------------------
(* parseInterpolations(text) turn by turn (compiler.ts 105-222): one action  *)
(* per way a turn of its while loop ends                                    *)

\* the lines given to parseInterpolations: up to MaxTokens pieces of template
\* syntax and text, and inline includes with up to MaxArgTokens pieces between
\* the parentheses
MaxTokens == 3
MaxArgTokens == 3
ScanTokens == {"{{{", "{{", "}}}", "}}", "@include(", ")", "@children", "a", " "}
\* the backtick of a template literal, written ~ here: to findClosingParen it
\* is a character like any other
BackTick == "~"
ArgTokens == {"p", ",", "(", ")", "'", BackTick, "{", "}"}

RECURSIVE TokenStrings(_, _)
TokenStrings(tokens, n) ==
    IF n = 0 THEN {""}
    ELSE TokenStrings(tokens, n - 1)
           \cup {str \o t : str \in TokenStrings(tokens, n - 1), t \in tokens}

IncludeLine(args) == "[@include(" \o args \o ")]"

\* lines of the kind the tests and the README show (test/compiler.test.ts
\* 40-57, 252-280)
ScanSamples ==
    {"{{a}}{{{",
     "<b>{{ a }}</b>{{{ a }}}",
     "a@include(x) @children {{ a",
     "<td>@include(x, { label: " \o BackTick \o "test" \o BackTick \o " })</td>",
     "<td>@include(x, { label: " \o BackTick \o "hi ${name}" \o BackTick \o " })</td>",
     "<td>@include(x, { label: " \o BackTick \o "${({a: 1}).a}" \o BackTick \o " })</td>",
     "<td>@include(x, { label: " \o BackTick \o ":)" \o BackTick \o " })</td>",
     "<td>@include(x, { label: f(a, 'b)') })</td>"}

ScanLines ==
    TokenStrings(ScanTokens, MaxTokens)
      \cup {IncludeLine(args) : args \in TokenStrings(ArgTokens, MaxArgTokens)}
      \cup ScanSamples

\* the four indexes a turn computes, the winner's position and kind, and the
\* index of the winner's closing token
ScanIndexes(remaining) ==
    [raw |-> IndexOf(remaining, "{{{"), escaped |-> IndexOf(remaining, "{{"),
     include |-> FindInclude(remaining, 0), children |-> FindChildren(remaining, 0)]

ScanHasCandidates(remaining) ==
    {ScanIndexes(remaining)[k] : k \in {"raw", "escaped", "include", "children"}} # {-1}

ScanPos(remaining) ==
    Min({ScanIndexes(remaining)[k] : k \in {"raw", "escaped", "include", "children"}}
          \ {-1})

ScanKind(remaining) ==
    WinnerKind(ScanIndexes(remaining).raw, ScanIndexes(remaining).escaped,
               ScanIndexes(remaining).include, ScanIndexes(remaining).children)

ScanClose(remaining) ==
    CASE ScanKind(remaining) = "raw" -> IndexOfFrom(remaining, "}}}", ScanPos(remaining) + 3)
      [] ScanKind(remaining) = "escaped" ->
            IndexOfFrom(remaining, "}}", ScanPos(remaining) + 2)
      [] ScanKind(remaining) = "include" ->
            FindClosingParen(remaining, ScanPos(remaining) + 9)
      [] OTHER -> 0

\* segments after  if (winner.pos > 0) segments.push(text before the winner)
ScanBefore(remaining, segments) ==
    IF ScanPos(remaining) > 0
    THEN Append(segments, TextSegment(Slice(remaining, 0, ScanPos(remaining))))
    ELSE segments

\* a parseInterpolations call is at the top of its loop with a winner of `kind`
\* whose closing token exists
ScanWinner(kind) ==
    /\ ~scan.done
    /\ ScanHasCandidates(scan.remaining)
    /\ ScanKind(scan.remaining) = kind
    /\ ScanClose(scan.remaining) # -1

\* the turn pushes `segment` and goes on with `rest`; the loop ends when
\* nothing remains
ScanPush(segment, rest) ==
    /\ scan' = [scan EXCEPT !.segments = Append(ScanBefore(scan.remaining, scan.segments),
                                                segment),
                            !.remaining = rest,
                            !.done = (Len(rest) = 0)]
    /\ UNCHANGED <<engineVars, assetVars, compileVars, run, parseCall, awaiting>>

\* candidates.length === 0: the rest is one text segment
ScanText ==
    /\ ~scan.done
    /\ ~ScanHasCandidates(scan.remaining)
    /\ scan' = [scan EXCEPT !.segments = Append(scan.segments, TextSegment(scan.remaining)),
                            !.done = TRUE]
    /\ UNCHANGED <<engineVars, assetVars, compileVars, run, parseCall, awaiting>>

\* endIndex === -1 or closeParenPos === -1: the winner and what follows it
\* are one text segment
ScanUnclosed ==
    /\ ~scan.done
    /\ ScanHasCandidates(scan.remaining)
    /\ ScanClose(scan.remaining) = -1
    /\ scan' = [scan EXCEPT !.segments =
                                Append(ScanBefore(scan.remaining, scan.segments),
                                       TextSegment(SliceFrom(scan.remaining,
                                                             ScanPos(scan.remaining)))),
                            !.done = TRUE]
    /\ UNCHANGED <<engineVars, assetVars, compileVars, run, parseCall, awaiting>>

ScanRaw ==
    /\ ScanWinner("raw")
    /\ ScanPush(Segment("raw", Trim(Slice(scan.remaining, ScanPos(scan.remaining) + 3,
                                          ScanClose(scan.remaining))), "", Undefined),
                SliceFrom(scan.remaining, ScanClose(scan.remaining) + 3))

ScanEscaped ==
    /\ ScanWinner("escaped")
    /\ ScanPush(Segment("escaped", Trim(Slice(scan.remaining, ScanPos(scan.remaining) + 2,
                                              ScanClose(scan.remaining))), "", Undefined),
                SliceFrom(scan.remaining, ScanClose(scan.remaining) + 2))

ScanInclude ==
    /\ ScanWinner("include")
    /\ ScanPush(Segment("include", "",
                        ParseIncludeArgs(Slice(scan.remaining, ScanPos(scan.remaining) + 9,
                                               ScanClose(scan.remaining))).path,
                        ParseIncludeArgs(Slice(scan.remaining, ScanPos(scan.remaining) + 9,
                                               ScanClose(scan.remaining))).props),
                SliceFrom(scan.remaining, ScanClose(scan.remaining) + 1))

ScanChildren ==
    /\ ScanWinner("children")
    /\ ScanPush(Segment("children", "", "", Undefined),
                SliceFrom(scan.remaining, ScanPos(scan.remaining) + 9))

\* parseInterpolations(line) is called on an idle engine
InitScan ==
    /\ Configured
    /\ ~cacheEnabled
    /\ collector = NewCollector
    /\ inlineAssets = NoBuild
    /\ injected = NoInjection
    /\ run = NoRun
    /\ parseCall = NoParse
    /\ awaiting = <<>>
    /\ lines = <<>>
    /\ lineIndex = 0
    /\ blockStack = <<>>
    /\ codeParts = <<>>
    /\ inlineJsBuffer = [open |-> FALSE, parts |-> <<>>]
    /\ inlineJsStartLine = 0
    /\ compiled = NotCompiled
    /\ \E line \in ScanLines :
          scan = [text |-> line, remaining |-> line, segments |-> <<>>,
                  done |-> (Len(line) = 0)]

NextScan ==
    \/ ScanText
    \/ ScanUnclosed
    \/ ScanRaw
    \/ ScanEscaped
    \/ ScanInclude
    \/ ScanChildren

SpecScan == InitScan /\ [][NextScan]_vars

-----------------------------------------------------------------------------
(* compile(template, filePath) (compiler.ts 263-481), one action per branch  *)
(* of its loop over the lines                                               *)

MaxLines == 3

FilePath == "t"

LineAlphabet ==
    {"@if(a)", "@elseif(b)", " @else", "@end", "@each(x of xs)", "@include(c)",
     "@component(c, { k: 1 })", "@children", "@head", "@provide(k, v)", "<% f() %>",
     "<%", "", "<p>{{ a }}</p>", "<% a %> b", "g() %>", "<%%>"}

Templates ==
    {Join(ls, "\n") : ls \in UNION {[1..n -> LineAlphabet] : n \in 1..MaxLines}}

\* the state of compile at the head of its loop (compiler.ts 264-275)
InitCompile ==
    /\ Configured
    /\ ~cacheEnabled
    /\ collector = NewCollector
    /\ inlineAssets = NoBuild
    /\ injected = NoInjection
    /\ run = NoRun
    /\ parseCall = NoParse
    /\ awaiting = <<>>
    /\ scan = NoScan
    /\ lines \in {Split(template, "\n") : template \in Templates}
    /\ lineIndex = 0
    /\ blockStack = <<>>
    /\ codeParts = << "var __out = '';",
                      "var __children = (typeof $children !== 'undefined') ? $children : '';" >>
    /\ inlineJsBuffer = [open |-> FALSE, parts |-> <<>>]
    /\ inlineJsStartLine = 0
    /\ compiled = [status |-> "running", error |-> NoError]

line == lines[lineIndex + 1]
trimmed == Trim(line)
lineNum == lineIndex + 1
LineTag == "/* line " \o ToString(lineNum) \o " */ "

\* the first test of the loop body that a line with trimmed text t passes
\* (compiler.ts 280-432)
BranchOf(t) ==
    IF inlineJsBuffer.open THEN "buffer"
    ELSE IF t = "" THEN "blank"
    ELSE IF DIRECTIVE_IF(t).matched THEN "if"
    ELSE IF DIRECTIVE_ELSEIF(t).matched THEN "elseif"
    ELSE IF DIRECTIVE_ELSE(t) THEN "else"
    ELSE IF DIRECTIVE_END(t) THEN "end"
    ELSE IF DIRECTIVE_EACH(t).matched THEN "each"
    ELSE IF DIRECTIVE_INCLUDE(t).matched THEN "include"
    ELSE IF DIRECTIVE_COMPONENT(t).matched THEN "component"
    ELSE IF DIRECTIVE_CHILDREN(t) THEN "children"
    ELSE IF DIRECTIVE_HEAD(t) THEN "head"
    ELSE IF DIRECTIVE_PROVIDE(t).matched THEN "provide"
    ELSE IF INLINE_JS(t).matched THEN "inlineJs"
    ELSE IF StartsWith(t, "<%") THEN "openJs"
    ELSE "text"

Branch == BranchOf(trimmed)

AtLine(branch) ==
    /\ compiled.status = "running"
    /\ lineIndex < Len(lines)
    /\ Branch = branch

notCompileVars == <<engineVars, assetVars, callVars>>

\* codeParts.push(code); [blockStack.push(block);] continue;
Emit(code, blocks) ==
    /\ codeParts' = Append(codeParts, code)
    /\ blockStack' = blocks
    /\ lineIndex' = lineIndex + 1
    /\ UNCHANGED <<lines, inlineJsBuffer, inlineJsStartLine, compiled, notCompileVars>>

\* throw new TmlCompileError(message, filePath, ln)
Throw(message, ln) ==
    /\ compiled' = [status |-> "threw", error |-> TmlCompileError(message, FilePath, ln)]
    /\ UNCHANGED <<lines, lineIndex, blockStack, codeParts, inlineJsBuffer,
                   inlineJsStartLine, notCompileVars>>

\* the test looking for an open `if` anywhere on the block stack
AnyOpenIf(blocks) == \E i \in 1..Len(blocks) : blocks[i] = "if"

\* blockStack[blockStack.length - 1] === "if"
InnermostIsIf(blocks) == blocks # <<>> /\ blocks[Len(blocks)] = "if"

\* inside a <% ... %> block (compiler.ts 280-292)
CompileBuffered ==
    /\ AtLine("buffer")
    /\ IF EndsWith(trimmed, "%>")
       THEN /\ codeParts' = Append(codeParts,
                   "/* line " \o ToString(inlineJsStartLine) \o " */ "
                   \o Join(IF Trim(Slice(trimmed, 0, Len(trimmed) - 2)) # ""
                           THEN Append(inlineJsBuffer.parts,
                                       Trim(Slice(trimmed, 0, Len(trimmed) - 2)))
                           ELSE inlineJsBuffer.parts, "\n"))
            /\ inlineJsBuffer' = [open |-> FALSE, parts |-> <<>>]
       ELSE /\ inlineJsBuffer' = [inlineJsBuffer EXCEPT !.parts = Append(@, line)]
            /\ UNCHANGED codeParts
    /\ lineIndex' = lineIndex + 1
    /\ UNCHANGED <<lines, blockStack, inlineJsStartLine, compiled, notCompileVars>>

CompileBlank ==
    /\ AtLine("blank")
    /\ Emit("__out += '\\n';", blockStack)

CompileIf ==
    /\ AtLine("if")
    /\ Emit(LineTag \o "if (" \o DIRECTIVE_IF(trimmed).g1 \o ") {",
            Append(blockStack, "if"))

\* an @elseif emitted as a plain `else`
ElseifCodeAsElse(cond) == "} else {"

\* `} else if (${match[1]}) {`
ElseifCode(cond) == "} else if (" \o cond \o ") {"

CompileElseif ==
    /\ AtLine("elseif")
    /\ IF ~InnermostIsIf(blockStack)
       THEN Throw("@elseif without matching @if", lineNum)
       ELSE Emit(LineTag \o ElseifCode(DIRECTIVE_ELSEIF(trimmed).g1), blockStack)

CompileElse ==
    /\ AtLine("else")
    /\ IF ~InnermostIsIf(blockStack)
       THEN Throw("@else without matching @if", lineNum)
       ELSE Emit(LineTag \o "} else {", blockStack)

CompileEnd ==
    /\ AtLine("end")
    /\ IF blockStack = <<>>
       THEN Throw("Unexpected @end without matching block", lineNum)
       ELSE Emit(LineTag \o (CASE blockStack[Len(blockStack)] = "each" -> "$index++; } }"
                               [] blockStack[Len(blockStack)] \in {"component", "head"}
                                    -> "return __out; });"
                               [] OTHER -> "}"),
                 SubSeq(blockStack, 1, Len(blockStack) - 1))

CompileEach ==
    /\ AtLine("each")
    /\ Emit(LineTag \o "{ var $index = 0; for (var " \o DIRECTIVE_EACH(trimmed).g1
            \o " of (" \o DIRECTIVE_EACH(trimmed).g2.str \o ")) {",
            Append(blockStack, "each"))

\* the data argument of __include / __component: match[2], trimmed, when truthy
DataArg(match) ==
    IF match.g2.defined /\ Trim(match.g2.str) # ""
    THEN "Object.assign({}, __data, " \o Trim(match.g2.str) \o ")"
    ELSE "__data"

CompileInclude ==
    /\ AtLine("include")
    /\ Emit(LineTag \o "__out += __include('" \o Trim(DIRECTIVE_INCLUDE(trimmed).g1)
            \o "', " \o DataArg(DIRECTIVE_INCLUDE(trimmed)) \o ", __context);",
            blockStack)

CompileComponent ==
    /\ AtLine("component")
    /\ Emit(LineTag \o "__out += __component('" \o Trim(DIRECTIVE_COMPONENT(trimmed).g1)
            \o "', " \o DataArg(DIRECTIVE_COMPONENT(trimmed))
            \o ", __context, function() { var __out = '';",
            Append(blockStack, "component"))

CompileChildren ==
    /\ AtLine("children")
    /\ Emit(LineTag \o "__out += (__children || '');", blockStack)

CompileHead ==
    /\ AtLine("head")
    /\ Emit(LineTag \o "__head(function() { var __out = '';", Append(blockStack, "head"))

CompileProvide ==
    /\ AtLine("provide")
    /\ Emit(LineTag \o "__context = Object.assign({}, __context, { "
            \o DIRECTIVE_PROVIDE(trimmed).g1 \o ": (" \o DIRECTIVE_PROVIDE(trimmed).g2.str
            \o ") }); $context = __context;",
            blockStack)

CompileInlineJs ==
    /\ AtLine("inlineJs")
    /\ Emit(LineTag \o Trim(INLINE_JS(trimmed).g1), blockStack)

\* a line that opens a <% block (compiler.ts 425-430)
CompileOpenJs ==
    /\ AtLine("openJs")
    /\ inlineJsStartLine' = lineNum
    /\ inlineJsBuffer' = [open |-> TRUE,
                          parts |-> IF Trim(SliceFrom(trimmed, 2)) # ""
                                    THEN <<Trim(SliceFrom(trimmed, 2))>> ELSE <<>>]
    /\ lineIndex' = lineIndex + 1
    /\ UNCHANGED <<lines, blockStack, codeParts, compiled, notCompileVars>>

CompileText ==
    /\ AtLine("text")
    /\ Emit(CompileLineWithInterpolations(line), blockStack)

-----------------------------------------------------------------------------
(* The statements compile emits, as JavaScript reads them (compiler.ts      *)
(* 270-273, 284-432, 452)                                                   *)

\* a statement without its  /* line N */  comment
StmtBody(code) ==
    IF StartsWith(code, "/* line ") THEN SliceFrom(code, IndexOf(code, " */ ") + 4)
    ELSE code

\* the kind of statement a part of the routine body is
StmtKind(code) ==
    LET b == StmtBody(code)
    IN CASE b = "}" -> "endif"
         [] b = "} else {" -> "else"
         [] b = "$index++; } }" -> "endeach"
         [] b = "return __out; });" -> "endfn"
         [] b = "return __out;" -> "return"
         [] StartsWith(b, "var ") -> "var"
         [] StartsWith(b, "if (") /\ EndsWith(b, ") {") -> "if"
         [] StartsWith(b, "} else if (") /\ EndsWith(b, ") {") -> "elseif"
         [] StartsWith(b, "{ var $index = 0; for (var ") -> "each"
         [] StartsWith(b, "__out += __component('") /\ EndsWith(b, "{ var __out = '';")
              -> "component"
         [] StartsWith(b, "__head(function() {") -> "head"
         [] StartsWith(b, "__context = Object.assign({}, __context, { ") -> "provide"
         [] StartsWith(b, "__out += ") -> "out"
         [] OTHER -> "script"

\* an `else` that follows the `else` of the same `if`, or a closing brace
\* with nothing open: the body is not a JavaScript function body
RECURSIVE ElseMisplaced(_, _, _)
ElseMisplaced(code, i, open) ==
    IF i > Len(code) THEN FALSE
    ELSE LET k == StmtKind(code[i])
         IN CASE k = "if" -> ElseMisplaced(code, i + 1, Append(open, "if"))
              [] k \in {"each", "component", "head"} ->
                    ElseMisplaced(code, i + 1, Append(open, "block"))
              [] k = "elseif" ->
                    \/ open = <<>>
                    \/ open[Len(open)] # "if"
                    \/ ElseMisplaced(code, i + 1, open)
              [] k = "else" ->
                    \/ open = <<>>
                    \/ open[Len(open)] # "if"
                    \/ ElseMisplaced(code, i + 1,
                                     [open EXCEPT ![Len(open)] = "else"])
              [] k \in {"endif", "endeach", "endfn"} ->
                    \/ open = <<>>
                    \/ ElseMisplaced(code, i + 1, SubSeq(open, 1, Len(open) - 1))
              [] OTHER -> ElseMisplaced(code, i + 1, open)

\* the outermost block still open
UnclosedOutermost(blocks) == blocks[1]

\* const unclosed = blockStack[blockStack.length - 1]
Unclosed(blocks) == blocks[Len(blocks)]

\* after the loop (compiler.ts 435-480).  The JavaScript parser behind
\* new Function is not part of the source: it accepts the body or rejects it,
\* and it rejects a body with a misplaced `else`
CompileFinish(accepted) ==
    /\ compiled.status = "running"
    /\ lineIndex = Len(lines)
    /\ accepted => ~ElseMisplaced(codeParts, 1, <<>>)
    /\ IF inlineJsBuffer.open
       THEN Throw("Unclosed <% block - missing %>", inlineJsStartLine)
       ELSE IF Len(blockStack) > 0
       THEN Throw("Unclosed @" \o Unclosed(blockStack) \o " block - missing @end",
                  Len(lines))
       ELSE /\ codeParts' = Append(codeParts, "return __out;")
            /\ compiled' = IF accepted THEN [status |-> "returned", error |-> NoError]
                           ELSE [status |-> "threw",
                                 error |-> TmlCompileError("Compilation failed: SyntaxError",
                                                           FilePath, 0)]
            /\ UNCHANGED <<lines, lineIndex, blockStack, inlineJsBuffer,
                           inlineJsStartLine, notCompileVars>>

NextCompile ==
    \/ CompileBuffered
    \/ CompileBlank
    \/ CompileIf
    \/ CompileElseif
    \/ CompileElse
    \/ CompileEnd
    \/ CompileEach
    \/ CompileInclude
    \/ CompileComponent
    \/ CompileChildren
    \/ CompileHead
    \/ CompileProvide
    \/ CompileInlineJs
    \/ CompileOpenJs
    \/ CompileText
    \/ \E accepted \in BOOLEAN : CompileFinish(accepted)

SpecCompile == InitCompile /\ [][NextCompile]_vars

\* the loop is at an @elseif(...) or @else line outside a <% block
C10_AtElse ==
    /\ compiled.status = "running"
    /\ lineIndex < Len(lines)
    /\ ~inlineJsBuffer.open
    /\ Trim(lines[lineIndex + 1]) \in {"@elseif(b)", "@else"}

C10_Message ==
    IF Trim(lines[lineIndex + 1]) = "@else" THEN "@else without matching @if"
    ELSE "@elseif without matching @if"

C10_Error ==
    [name |-> "TmlCompileError",
     message |-> C10_Message \o " at t:" \o ToString(lineIndex + 1),
     filePath |-> "t", line |-> lineIndex + 1]

\* C10: at an @elseif or @else line, compile goes on to the next line with the
\* block stack as it is when the innermost open block is an `if`, and in every
\* other case (no open block, or an each, component or head block innermost,
\* whatever lies below it) stops there with the CompileError
\* '@elseif without matching @if' / '@else without matching @if' carrying the
\* file path and the 1-based number of that line; that error arises in no
\* other way
C10_ElseNeedsInnermostIf ==
    /\ [][C10_AtElse =>
            IF blockStack # <<>> /\ blockStack[Len(blockStack)] = "if"
            THEN /\ compiled' = compiled
                 /\ lineIndex' = lineIndex + 1
                 /\ blockStack' = blockStack
            ELSE /\ compiled' = [status |-> "threw", error |-> C10_Error]
                 /\ lineIndex' = lineIndex]_vars
    /\ []((compiled.status = "threw"
           /\ \E n \in 0..Len(lines) :
                 compiled.error.message
                   \in {"@else without matching @if at t:" \o ToString(n),
                        "@elseif without matching @if at t:" \o ToString(n)})
            => /\ compiled.error = C10_Error
               /\ ~inlineJsBuffer.open
               /\ Trim(lines[lineIndex + 1]) \in {"@elseif(b)", "@else"}
               /\ (blockStack = <<>> \/ blockStack[Len(blockStack)] # "if"))

\* @else directly inside an @each that is nested in an @if
C10_Witness ==
    /\ lines = <<"@if(a)", "@each(x of xs)", " @else">>
    /\ blockStack = <<"if", "each">>
    /\ compiled.status = "threw"
    /\ compiled.error.message = "@else without matching @if at t:3"
    /\ compiled.error.line = 3

-----------------------------------------------------------------------------
(* @end and the end of the template (compiler.ts 333-350, 435-450) *)

\* the loop is at an @end line outside a <% block
C11_AtEnd ==
    /\ compiled.status = "running"
    /\ lineIndex < Len(lines)
    /\ ~inlineJsBuffer.open
    /\ Trim(lines[lineIndex + 1]) = "@end"

\* the loop has run over every line and blocks are still open
C11_AtEof ==
    /\ compiled.status = "running"
    /\ lineIndex = Len(lines)
    /\ blockStack # <<>>

C11_Unexpected ==
    [name |-> "TmlCompileError",
     message |-> "Unexpected @end without matching block at t:" \o ToString(lineIndex + 1),
     filePath |-> "t", line |-> lineIndex + 1]

C11_Unclosed ==
    [name |-> "TmlCompileError",
     message |-> "Unclosed @" \o blockStack[Len(blockStack)]
                 \o " block - missing @end at t:" \o ToString(Len(lines)),
     filePath |-> "t", line |-> Len(lines)]

\* an @end line removes the innermost open block and nothing else, or fails
\* with 'Unexpected @end ...' at that line when no block is open; no other
\* line removes a block
C11_EndPops ==
    /\ [][C11_AtEnd =>
            IF blockStack = <<>>
            THEN /\ compiled' = [status |-> "threw", error |-> C11_Unexpected]
                 /\ lineIndex' = lineIndex
            ELSE /\ compiled' = compiled
                 /\ lineIndex' = lineIndex + 1
                 /\ blockStack' = SubSeq(blockStack, 1, Len(blockStack) - 1)]_vars
    /\ [][Len(blockStack') < Len(blockStack) => C11_AtEnd]_vars

\* C11 as stated: every @end pops exactly one open block, an @end with no
\* open block fails with 'Unexpected @end' at that line, and whenever the end
\* of the template is reached with a non-empty block stack compile fails with
\* 'Unclosed @<kind> block - missing @end' for the innermost open kind at the
\* number of the last line
C11_UnclosedAtEof ==
    /\ C11_EndPops
    /\ [][C11_AtEof => compiled' = [status |-> "threw", error |-> C11_Unclosed]]_vars

\* C11, amended: as above when no <% block is left open at the end of the
\* template; when one is, compile fails with 'Unclosed <% block - missing %>'
\* at the line that opened it, whatever blocks are open
C11_UnclosedUnlessScriptOpen ==
    /\ C11_EndPops
    /\ [][C11_AtEof =>
            compiled' =
              IF inlineJsBuffer.open
              THEN [status |-> "threw",
                    error |-> [name |-> "TmlCompileError",
                               message |-> "Unclosed <% block - missing %> at t:"
                                           \o ToString(inlineJsStartLine),
                               filePath |-> "t", line |-> inlineJsStartLine]]
              ELSE [status |-> "threw", error |-> C11_Unclosed]]_vars

\* an @each closed by @end inside an @if that is never closed
C11_Witness ==
    /\ lines = <<"@if(a)", "@each(x of xs)", "@end">>
    /\ blockStack = <<"if">>
    /\ compiled.status = "threw"
    /\ compiled.error.message = "Unclosed @if block - missing @end at t:3"
    /\ compiled.error.line = 3

-----------------------------------------------------------------------------
(* Calling a compiled routine (compiler.ts 456-473) the way render() of     *)
(* test/compiler.test.ts 5-21 does: the body of the routine is the emitted  *)
(* statements inside  with (__data) { ... }, run one statement at a time    *)
(* with the scoping of JavaScript.                                          *)

\* a JavaScript value: String(value), its truthiness, its number and, for an
\* array, its elements
JsUndefined == [type |-> "undefined", defined |-> FALSE, str |-> "undefined",
                truthy |-> FALSE, num |-> 0, items |-> <<>>]
JsNull == [type |-> "null", defined |-> FALSE, str |-> "null", truthy |-> FALSE,
           num |-> 0, items |-> <<>>]
JsNaN == [type |-> "nan", defined |-> TRUE, str |-> "NaN", truthy |-> FALSE, num |-> 0,
          items |-> <<>>]
JsBool(b) == [type |-> "boolean", defined |-> TRUE, str |-> IF b THEN "true" ELSE "false",
              truthy |-> b, num |-> IF b THEN 1 ELSE 0, items |-> <<>>]
JsNum(n) == [type |-> "number", defined |-> TRUE, str |-> ToString(n), truthy |-> n # 0,
             num |-> n, items |-> <<>>]
JsStr(str) == [type |-> "string", defined |-> TRUE, str |-> str, truthy |-> str # "",
               num |-> 0, items |-> <<>>]
JsList(items) == [type |-> "object", defined |-> TRUE, str |-> Join(items, ","),
                  truthy |-> TRUE, num |-> 0, items |-> items]

\* a + b: concatenation of the strings when an operand is a string or an
\* array, else the sum of the numbers the operands convert to
JsPlus(a, b) ==
    IF {a.type, b.type} \cap {"string", "object"} # {} THEN JsStr(a.str \o b.str)
    ELSE IF {a.type, b.type} \cap {"undefined", "nan"} # {} THEN JsNaN
    ELSE JsNum(a.num + b.num)

RunError(name, message) == [name |-> name, message |-> message, filePath |-> "", line |-> 0]

\* the index of the statement that ends what the statement before i opened:
\* the closing statement of the block, or with arms the next `else if` / `else`
RECURSIVE ScanBlock(_, _, _, _)
ScanBlock(code, i, depth, arms) ==
    LET k == StmtKind(code[i])
    IN IF k \in {"if", "each", "component", "head"}
       THEN ScanBlock(code, i + 1, depth + 1, arms)
       ELSE IF k \in {"endif", "endeach", "endfn"}
       THEN IF depth = 0 THEN i ELSE ScanBlock(code, i + 1, depth - 1, arms)
       ELSE IF k \in {"elseif", "else"} /\ arms /\ depth = 0 THEN i
       ELSE ScanBlock(code, i + 1, depth, arms)

\* for (var <item> of (<iterable>)) of an `each` statement
EachItem(code) == Slice(StmtBody(code), 27, IndexOf(StmtBody(code), " of ("))
EachIterable(code) ==
    Slice(StmtBody(code), IndexOf(StmtBody(code), " of (") + 5, Len(StmtBody(code)) - 4)

\* the names declared with `var` in the function whose body starts at
\* statement i: a declaration belongs to the innermost function around it
RECURSIVE Declared(_, _, _, _)
Declared(code, i, depth, names) ==
    IF i > Len(code) THEN names
    ELSE LET k == StmtKind(code[i])
         IN IF k \in {"component", "head"} THEN Declared(code, i + 1, depth + 1, names)
            ELSE IF k = "endfn"
            THEN IF depth = 0 THEN names ELSE Declared(code, i + 1, depth - 1, names)
            ELSE IF k = "each" /\ depth = 0
            THEN Declared(code, i + 1, depth, names \cup {"$index", EachItem(code[i])})
            ELSE Declared(code, i + 1, depth, names)

\* an activation of the routine (the first one) or of a closure written in it
Activation(kind, names) ==
    [kind |-> kind, vars |-> [n \in names |-> JsUndefined], out |-> ""]

\* the call fn(data, escapeHtml, includeHandler, componentHandler, context,
\* headHandler):  __data = Object.assign({}, __data, { $context: __context })
RunOf(status, code, data, context) ==
    [status |-> status, input |-> data, code |-> code, pc |-> 1, data |-> data,
     context |-> context, dataContext |-> context,
     acts |-> << Activation("routine", Declared(code, 1, 0, {"__children"})) >>,
     loops |-> <<>>, seeking |-> FALSE, evals |-> <<>>, headContent |-> "",
     error |-> NoError, result |-> ""]

\* where an identifier resolves, innermost scope first: a closure's own
\* variables (its index in acts), the object of `with` (0), the variables of
\* the routine (1); -1 when it resolves nowhere
Holder(r, id) ==
    LET closures == {k \in 2..Len(r.acts) : id \in DOMAIN r.acts[k].vars}
    IN IF closures # {} THEN CHOOSE k \in closures : \A j \in closures : j <= k
       ELSE IF id \in DOMAIN r.data THEN 0
       ELSE IF id \in DOMAIN r.acts[1].vars THEN 1
       ELSE -1

ReadVar(r, id) ==
    IF Holder(r, id) = 0 THEN r.data[id] ELSE r.acts[Holder(r, id)].vars[id]

WriteVar(r, id, value) ==
    IF Holder(r, id) = 0 THEN [r EXCEPT !.data[id] = value]
    ELSE IF Holder(r, id) = -1 THEN r
    ELSE [r EXCEPT !.acts[Holder(r, id)].vars[id] = value]

\* the value of an expression: $context.<key>, a string literal, a call
\* <name>() or an identifier
Eval(r, expr) ==
    LET e == Trim(expr)
    IN IF StartsWith(e, "$context.")
       THEN [error |-> NoError,
             value |-> IF MapHas(r.dataContext, SliceFrom(e, 9))
                       THEN MapGet(r.dataContext, SliceFrom(e, 9)) ELSE JsUndefined]
       ELSE IF Len(e) >= 2 /\ CharAt(e, 0) = "\"" /\ EndsWith(e, "\"")
       THEN [error |-> NoError, value |-> JsStr(Slice(e, 1, Len(e) - 1))]
       ELSE IF EndsWith(e, "()")
       THEN [error |-> IF Holder(r, Slice(e, 0, Len(e) - 2)) = -1
                       THEN RunError("ReferenceError",
                                     Slice(e, 0, Len(e) - 2) \o " is not defined")
                       ELSE RunError("TypeError",
                                     Slice(e, 0, Len(e) - 2) \o " is not a function"),
             value |-> JsUndefined]
       ELSE IF Holder(r, e) = -1
       THEN [error |-> RunError("ReferenceError", e \o " is not defined"),
             value |-> JsUndefined]
       ELSE [error |-> NoError, value |-> ReadVar(r, e)]

\* the end of the string literal that starts before index i
RECURSIVE StrLitEnd(_, _)
StrLitEnd(str, i) ==
    IF i >= Len(str) THEN Len(str)
    ELSE IF CharAt(str, i) = "\\" THEN StrLitEnd(str, i + 2)
    ELSE IF CharAt(str, i) = "'" THEN i
    ELSE StrLitEnd(str, i + 1)

\* the string a literal written by escapeJsString denotes
RECURSIVE Unescape(_)
Unescape(str) ==
    IF str = "" THEN ""
    ELSE IF CharAt(str, 0) = "\\" /\ Len(str) >= 2
    THEN (CASE CharAt(str, 1) = "n" -> "\n"
            [] CharAt(str, 1) = "r" -> "\r"
            [] OTHER -> CharAt(str, 1)) \o Unescape(SliceFrom(str, 2))
    ELSE CharAt(str, 0) \o Unescape(SliceFrom(str, 1))

\* the include handler of test/compiler.test.ts 109
IncludeStub(includePath) == "<nav>" \o includePath \o "</nav>"

\* the sum so far t and the next operand n
OutSum(t, n) == [error |-> n.error, value |-> JsPlus(t.value, n.value), end |-> n.end]

\* the first operand of the right-hand side str of  __out += a + b + ...;
\* [error, value, end]: its value and the index after it
OutTerm(r, str) ==
    IF CharAt(str, 0) = "'"
    THEN [error |-> NoError, value |-> JsStr(Unescape(Slice(str, 1, StrLitEnd(str, 1)))),
          end |-> StrLitEnd(str, 1) + 1]
    ELSE IF StartsWith(str, "__escape(")
    THEN [error |-> Eval(r, Slice(str, 9, FindClosingParen(str, 9))).error,
          value |-> JsStr(EscapeHtml(Eval(r, Slice(str, 9, FindClosingParen(str, 9))).value)),
          end |-> FindClosingParen(str, 9) + 1]
    ELSE IF StartsWith(str, "__include('")
    THEN [error |-> NoError,
          value |-> JsStr(IncludeStub(Slice(str, 11, IndexOfFrom(str, "'", 11)))),
          end |-> FindClosingParen(str, 10) + 1]
    ELSE IF StartsWith(str, "(__children || '')")
    THEN [error |-> NoError,
          value |-> IF ReadVar(r, "__children").truthy THEN ReadVar(r, "__children")
                    ELSE JsStr(""),
          end |-> 18]
    ELSE [error |-> Eval(r, Slice(str, 1, FindClosingParen(str, 1))).error,
          value |-> Eval(r, Slice(str, 1, FindClosingParen(str, 1))).value,
          end |-> FindClosingParen(str, 1) + 1]

\* the value of  a + b + ...  as a string: operands are evaluated and added
\* from left to right, t being the sum so far and the index after it
RECURSIVE OutTerms(_, _, _)
OutTerms(r, str, t) ==
    IF t.error # NoError THEN [error |-> t.error, text |-> ""]
    ELSE IF StartsWith(SliceFrom(str, t.end), " + ")
    THEN OutTerms(r, SliceFrom(str, t.end + 3), OutSum(t, OutTerm(r, SliceFrom(str, t.end + 3))))
    ELSE [error |-> NoError, text |-> t.value.str]

Thrown(r, e) == [r EXCEPT !.status = "threw", !.error = e]
Goto(r, pc) == [r EXCEPT !.pc = pc]
TopAct(r) == r.acts[Len(r.acts)]

\* var __out = '';  /  var __children = (typeof $children !== 'undefined') ? $children : '';
StepVar(r, b) ==
    IF StartsWith(b, "var __children")
    THEN Goto(WriteVar(r, "__children",
                       IF Holder(r, "$children") # -1 THEN ReadVar(r, "$children")
                       ELSE JsStr("")), r.pc + 1)
    ELSE Goto(r, r.pc + 1)

\* __out += ...;
StepOut(r, b, t) ==
    IF t.error # NoError THEN Thrown(r, t.error)
    ELSE Goto([r EXCEPT !.acts[Len(r.acts)].out = @ \o t.text], r.pc + 1)

\* if (c) {   and   } else if (c) {   reached with no branch of its chain taken
StepCond(r, cond, v) ==
    IF v.error # NoError THEN Thrown([r EXCEPT !.evals = Append(@, cond)], v.error)
    ELSE IF v.value.truthy
    THEN Goto([r EXCEPT !.evals = Append(@, cond), !.seeking = FALSE], r.pc + 1)
    ELSE Goto([r EXCEPT !.evals = Append(@, cond), !.seeking = TRUE],
              ScanBlock(r.code, r.pc + 1, 0, TRUE))

\* } else if (c) {   and   } else {   and   }
StepArm(r, k, b) ==
    IF k = "endif" THEN Goto([r EXCEPT !.seeking = FALSE], r.pc + 1)
    ELSE IF ~r.seeking THEN Goto(r, ScanBlock(r.code, r.pc + 1, 0, FALSE))
    ELSE IF k = "else" THEN Goto([r EXCEPT !.seeking = FALSE], r.pc + 1)
    ELSE StepCond(r, Slice(b, 11, Len(b) - 3), Eval(r, Slice(b, 11, Len(b) - 3)))

\* { var $index = 0; for (var item of (iterable)) {
StepEach(r, item, v) ==
    IF v.error # NoError THEN Thrown(WriteVar(r, "$index", JsNum(0)), v.error)
    ELSE IF ~v.value.defined
    THEN Thrown(WriteVar(r, "$index", JsNum(0)),
                RunError("TypeError", "undefined is not iterable"))
    ELSE IF v.value.items = <<>>
    THEN Goto(WriteVar(r, "$index", JsNum(0)), ScanBlock(r.code, r.pc + 1, 0, FALSE) + 1)
    ELSE Goto([WriteVar(WriteVar(r, "$index", JsNum(0)), item, JsStr(Head(v.value.items)))
                 EXCEPT !.loops = Append(@, [start |-> r.pc, item |-> item,
                                             rest |-> Tail(v.value.items)])],
              r.pc + 1)

\* $index++; } }
StepEndEach(r, loop, bumped) ==
    IF loop.rest = <<>>
    THEN Goto([bumped EXCEPT !.loops = SubSeq(@, 1, Len(@) - 1)], r.pc + 1)
    ELSE Goto([WriteVar(bumped, loop.item, JsStr(Head(loop.rest)))
                 EXCEPT !.loops[Len(r.loops)].rest = Tail(@)],
              loop.start + 1)

\* __out += __component(path, data, __context, function() { var __out = '';
\* and  __head(function() { var __out = '';  : the handler calls the closure
StepClosure(r, k) ==
    Goto([r EXCEPT !.acts = Append(@, Activation(k, Declared(r.code, r.pc + 1, 0, {})))],
         r.pc + 1)

\* return __out; });  the component handler of test/compiler.test.ts 131-133
\* returns `<div>${childrenFn()}</div>`, the head handler of 171-173 keeps
\* the string
StepEndFn(r) ==
    IF TopAct(r).kind = "head"
    THEN Goto([r EXCEPT !.headContent = TopAct(r).out,
                        !.acts = SubSeq(@, 1, Len(@) - 1)], r.pc + 1)
    ELSE Goto([r EXCEPT !.acts = [SubSeq(@, 1, Len(@) - 1) EXCEPT ![Len(r.acts) - 1].out =
                                     @ \o "<div>" \o TopAct(r).out \o "</div>"]],
              r.pc + 1)

\* __context = Object.assign({}, __context, { key: (expr) }); $context = __context;
StepProvide(r, key, v) ==
    IF v.error # NoError THEN Thrown(r, v.error)
    ELSE Goto([r EXCEPT !.context = MapSet(r.context, key, v.value),
                        !.dataContext = MapSet(r.context, key, v.value)], r.pc + 1)

\* an inline script
StepScript(r, v) == IF v.error # NoError THEN Thrown(r, v.error) ELSE Goto(r, r.pc + 1)

\* return __out;
StepReturn(r) == [r EXCEPT !.status = "returned", !.result = r.acts[1].out]

\* one statement of the routine
Step(r, k, b) ==
    CASE k = "var" -> StepVar(r, b)
      [] k = "out" -> StepOut(r, b, OutTerms(r, SliceFrom(b, 9), OutTerm(r, SliceFrom(b, 9))))
      [] k = "if" -> StepCond(r, Slice(b, 4, Len(b) - 3), Eval(r, Slice(b, 4, Len(b) - 3)))
      [] k \in {"elseif", "else", "endif"} -> StepArm(r, k, b)
      [] k = "each" -> StepEach(r, EachItem(b), Eval(r, EachIterable(b)))
      [] k = "endeach" ->
            StepEndEach(r, r.loops[Len(r.loops)],
                        WriteVar(r, "$index", JsNum(ReadVar(r, "$index").num + 1)))
      [] k \in {"component", "head"} -> StepClosure(r, k)
      [] k = "endfn" -> StepEndFn(r)
      [] k = "provide" ->
            StepProvide(r, Slice(b, 43, IndexOf(b, ": (")),
                        Eval(r, Slice(b, IndexOf(b, ": (") + 3, Len(b) - 27)))
      [] k = "script" -> StepScript(r, Eval(r, b))
      [] OTHER -> StepReturn(r)

-----------------------------------------------------------------------------
(* render(template, data) of test/compiler.test.ts 5-21: compile, then call *)
(* the routine                                                              *)

MaxChainLines == 6
MaxItems == 2

\* the lines of every template of n lines made of text lines and complete
\* @if / @elseif / @else / @end chains, chains within chains included
RECURSIVE BodiesOf(_)
RECURSIVE ChainsOf(_)
RECURSIVE TailsOf(_)
BodiesOf(n) ==
    IF n = 0 THEN {<<>>}
    ELSE {<<"T">> \o rest : rest \in BodiesOf(n - 1)}
         \cup UNION {{c \o rest : c \in ChainsOf(k), rest \in BodiesOf(n - k)} : k \in 2..n}

ChainsOf(n) ==
    UNION {{<<"@if(" \o c \o ")">> \o body \o tail :
                c \in {"a", "b"}, body \in BodiesOf(k), tail \in TailsOf(n - 1 - k)} :
           k \in 0..(n - 2)}

TailsOf(n) ==
    (IF n = 1 THEN {<<"@end">>} ELSE {<<"@else">> \o body \o <<"@end">> : body \in BodiesOf(n - 2)})
    \cup UNION {{<<"@elseif(b)">> \o body \o tail :
                    body \in BodiesOf(k), tail \in TailsOf(n - 1 - k)} : k \in 0..(n - 2)}

\* every text line says which line it is
Numbered(ls) == [i \in 1..Len(ls) |-> IF ls[i] = "T" THEN "T" \o ToString(i) ELSE ls[i]]

ChainTemplates == {Numbered(ls) : ls \in UNION {BodiesOf(n) : n \in 2..MaxChainLines}}
ChainData == {[n \in {"a", "b"} |-> JsBool(v[n])] : v \in [{"a", "b"} -> BOOLEAN]}

\* an array of n strings
ListOf(prefix, n) == JsList([i \in 1..n |-> prefix \o ToString(i)])

EachTemplates ==
    { <<"@each(x of xs)", "{{ $index }}:{{ x }}", "@end">>,
      <<"@each(x of xs)", "{{ $index }}:{{ x }}", "@each(y of ys)", "{{ $index }}:{{ y }}",
        "@end", "@end">>,
      <<"@each(x of xs)", "@each(y of ys)", "{{ $index }}:{{ y }}", "@end",
        "{{ $index }}:{{ x }}", "@end">>,
      <<"@each(x of xs)", "@component(c)", "@each(y of ys)", "{{ $index }}:{{ y }}", "@end",
        "@end", "{{ $index }}:{{ x }}", "@end">>,
      <<"[{{ $index }}|{{ x }}]", "@each(x of xs)", "{{ $index }}:{{ x }}", "@end",
        "[{{ $index }}|{{ x }}]">> }

EachData ==
    {[n \in {"xs", "ys"} |-> IF n = "xs" THEN ListOf("p", nx) ELSE ListOf("q", ny)] :
        nx \in 0..MaxItems, ny \in 0..MaxItems}
    \cup {[n \in {"xs", "ys", "x"} |-> IF n = "xs" THEN ListOf("p", nx)
                                       ELSE IF n = "ys" THEN ListOf("q", 1)
                                       ELSE JsStr("D")] : nx \in 0..MaxItems}

\* templates with the other directives, scripts, and an @elseif after @else
OtherTemplates ==
    { <<"@provide(k, \"v\")", "", "@head", "<m>", "@end", "@component(c, { k: 1 })",
        "@children {{ $context.k }}{{{ a }}}", "@end", "@include(c)", "@children",
        "<% f() %>">>,
      <<"{{ b }}", "<%", "f()", "%>">>,
      <<"@if(a)", "x", "@else", "y", "@elseif(b)", "z", "@end">> }

OtherData == {[n \in {"a", "$children"} |-> IF n = "a" THEN JsBool(TRUE) ELSE JsStr("<i>")]}

\* the characters of an interpolated string
MaxValueLen == 2

ValueChars == {"&", "<", ">", "\"", "'", "a", ";"}

RECURSIVE StringsUpTo(_)
StringsUpTo(n) ==
    IF n = 0 THEN {""}
    ELSE StringsUpTo(n - 1) \cup {str \o c : str \in StringsUpTo(n - 1), c \in ValueChars}

\* a line with an escaped interpolation, with a raw one, with both in text,
\* and with two raw ones side by side
InterpTemplates ==
    { <<"{{ v }}">>, <<"{{{ v }}}">>, <<"<b>{{ v }}|{{{ v }}}</b>">>, <<"{{{ v }}}{{{ v }}}">> }

InterpData ==
    {[n \in {"v"} |-> val] :
        val \in {JsStr(str) : str \in StringsUpTo(MaxValueLen)}
                 \cup {JsUndefined, JsNull, JsNum(42)}}

RunCases ==
    (ChainTemplates \X ChainData) \cup (EachTemplates \X EachData)
    \cup (OtherTemplates \X OtherData) \cup (InterpTemplates \X InterpData)

InitRun ==
    /\ Configured
    /\ ~cacheEnabled
    /\ collector = NewCollector
    /\ inlineAssets = NoBuild
    /\ injected = NoInjection
    /\ parseCall = NoParse
    /\ awaiting = <<>>
    /\ scan = NoScan
    /\ \E c \in RunCases : /\ lines = c[1]
                           /\ run = RunOf("none", <<>>, c[2], EmptyMap)
    /\ lineIndex = 0
    /\ blockStack = <<>>
    /\ codeParts = << "var __out = '';",
                      "var __children = (typeof $children !== 'undefined') ? $children : '';" >>
    /\ inlineJsBuffer = [open |-> FALSE, parts |-> <<>>]
    /\ inlineJsStartLine = 0
    /\ compiled = [status |-> "running", error |-> NoError]

\* fn(data, escapeHtml, includeHandler, componentHandler, context, headHandler)
RunStart ==
    /\ compiled.status = "returned"
    /\ run.status = "none"
    /\ run' = RunOf("running", codeParts, run.input, EmptyMap)
    /\ UNCHANGED <<engineVars, assetVars, compileVars, parseCall, awaiting, scan>>

\* the routine is at a statement of one of the kinds
RunAt(kinds) ==
    /\ run.status = "running"
    /\ StmtKind(run.code[run.pc]) \in kinds

\* the routine executes the statement it is at
Execute ==
    /\ run' = Step(run, StmtKind(run.code[run.pc]), StmtBody(run.code[run.pc]))
    /\ UNCHANGED <<engineVars, assetVars, compileVars, parseCall, awaiting, scan>>

RunVar ==
    /\ RunAt({"var"})
    /\ Execute

RunOut ==
    /\ RunAt({"out"})
    /\ Execute

RunIf ==
    /\ RunAt({"if"})
    /\ Execute

RunArm ==
    /\ RunAt({"elseif", "else", "endif"})
    /\ Execute

RunEach ==
    /\ RunAt({"each"})
    /\ Execute

RunEndEach ==
    /\ RunAt({"endeach"})
    /\ Execute

RunClosure ==
    /\ RunAt({"component", "head"})
    /\ Execute

RunEndFn ==
    /\ RunAt({"endfn"})
    /\ Execute

RunProvide ==
    /\ RunAt({"provide"})
    /\ Execute

RunScript ==
    /\ RunAt({"script"})
    /\ Execute

RunReturn ==
    /\ RunAt({"return"})
    /\ Execute

NextRun ==
    \/ NextCompile
    \/ RunStart
    \/ RunVar
    \/ RunOut
    \/ RunIf
    \/ RunArm
    \/ RunEach
    \/ RunEndEach
    \/ RunClosure
    \/ RunEndFn
    \/ RunProvide
    \/ RunScript
    \/ RunReturn

SpecRun == InitRun /\ [][NextRun]_vars

-----------------------------------------------------------------------------
(* Properties of compiled routines, checked under SpecRun *)

\* the chain being walked emits: every enclosing branch was chosen
C12_Emitting(chains) == chains = <<>> \/ chains[Len(chains)].on

\* the output and the conditions evaluated when, reading the lines in order,
\* each chain emits the body of its first true condition, else its @else body
RECURSIVE C12_Walk(_, _, _, _, _)
C12_Walk(ls, i, chains, out, evals) ==
    IF i > Len(ls) THEN [out |-> out, evals |-> evals]
    ELSE LET l == ls[i]
             top == chains[Len(chains)]
         IN IF StartsWith(l, "@if(")
            THEN LET c == Slice(l, 4, Len(l) - 1)
                     on == C12_Emitting(chains) /\ run.input[c].truthy
                 IN C12_Walk(ls, i + 1,
                             Append(chains, [outer |-> C12_Emitting(chains), taken |-> on,
                                             on |-> on]),
                             out,
                             IF C12_Emitting(chains) THEN Append(evals, c) ELSE evals)
            ELSE IF StartsWith(l, "@elseif(")
            THEN LET c == Slice(l, 8, Len(l) - 1)
                     asked == top.outer /\ ~top.taken
                     on == asked /\ run.input[c].truthy
                 IN C12_Walk(ls, i + 1,
                             [chains EXCEPT ![Len(chains)].taken = @ \/ on,
                                            ![Len(chains)].on = on],
                             out, IF asked THEN Append(evals, c) ELSE evals)
            ELSE IF l = "@else"
            THEN C12_Walk(ls, i + 1,
                          [chains EXCEPT ![Len(chains)].taken = TRUE,
                                         ![Len(chains)].on = top.outer /\ ~top.taken],
                          out, evals)
            ELSE IF l = "@end"
            THEN C12_Walk(ls, i + 1, SubSeq(chains, 1, Len(chains) - 1), out, evals)
            ELSE C12_Walk(ls, i + 1, chains,
                          IF C12_Emitting(chains) THEN out \o l \o "\n" ELSE out, evals)

\* C12: a template of text lines and complete @if / @elseif / @else / @end
\* chains, nested to any depth, renders without error to exactly the bodies
\* chosen by the first true condition of each chain in source order (the
\* @else body when none is true, nothing without @else), and evaluates no
\* condition after the first true one of a chain nor any of an unchosen body
C12_FirstTrueBranch ==
    lines \in ChainTemplates =>
        /\ run.status # "threw"
        /\ run.status = "returned" =>
              /\ run.result = C12_Walk(lines, 1, <<>>, "", <<>>).out
              /\ run.evals = C12_Walk(lines, 1, <<>>, "", <<>>).evals

\* a chain nested in the chosen branch of another takes its @else body
C12_Witness ==
    /\ lines = <<"@if(b)", "@if(a)", "@else", "T4", "@end", "@end">>
    /\ ~run.input["a"].truthy
    /\ run.input["b"].truthy
    /\ run.status = "returned"
    /\ run.evals = <<"b", "a">>
    /\ run.result = "T4\n"

\* the @end that closes the block opened before line i
RECURSIVE C13_End(_, _, _)
C13_End(ls, i, depth) ==
    IF StartsWith(ls[i], "@each(") \/ StartsWith(ls[i], "@component(")
    THEN C13_End(ls, i + 1, depth + 1)
    ELSE IF ls[i] = "@end"
    THEN IF depth = 0 THEN i ELSE C13_End(ls, i + 1, depth - 1)
    ELSE C13_End(ls, i + 1, depth)

\* what lines i..j render to when every @each runs its body once per element
\* with $index and the item bound, in the body only, to the element's
\* position and value; index is "" and an item is "" where they are unbound
RECURSIVE C13_Render(_, _, _, _, _)
RECURSIVE C13_Loop(_, _, _, _, _, _, _, _)
C13_Render(ls, i, j, index, items) ==
    IF i > j THEN ""
    ELSE IF StartsWith(ls[i], "@each(")
    THEN C13_Loop(ls, i + 1, C13_End(ls, i + 1, 0) - 1, CharAt(ls[i], 6),
                  run.input[Slice(ls[i], 11, Len(ls[i]) - 1)].items, 1, index, items)
         \o C13_Render(ls, C13_End(ls, i + 1, 0) + 1, j, index, items)
    ELSE IF StartsWith(ls[i], "@component(")
    THEN "<div>" \o C13_Render(ls, i + 1, C13_End(ls, i + 1, 0) - 1, index, items)
         \o "</div>" \o C13_Render(ls, C13_End(ls, i + 1, 0) + 1, j, index, items)
    ELSE IF StartsWith(ls[i], "[")
    THEN "[" \o index \o "|" \o items["x"] \o "]\n" \o C13_Render(ls, i + 1, j, index, items)
    ELSE index \o ":" \o items[CharAt(ls[i], 16)] \o "\n"
         \o C13_Render(ls, i + 1, j, index, items)

C13_Loop(ls, i, j, item, elements, k, index, items) ==
    IF k > Len(elements) THEN ""
    ELSE C13_Render(ls, i, j, ToString(k - 1), [items EXCEPT ![item] = elements[k]])
         \o C13_Loop(ls, i, j, item, elements, k + 1, index, items)

C13_Expected ==
    C13_Render(lines, 1, Len(lines), "",
               [v \in {"x", "y"} |-> IF v \in DOMAIN run.input THEN run.input[v].str ELSE ""])

\* the template that reads $index and the item before and after its loop
C14_Template ==
    <<"[{{ $index }}|{{ x }}]", "@each(x of xs)", "{{ $index }}:{{ x }}", "@end",
      "[{{ $index }}|{{ x }}]">>

\* C13: in every @each block, one that contains another @each or lies in one
\* included, the body runs once per element and reads $index as 0, 1, ...,
\* N-1 in order
C13_IndexPerElement ==
    (lines \in EachTemplates \ {C14_Template} /\ run.status = "returned")
        => run.result = C13_Expected

\* C14: on the lines after the @end of an @each, $index and the item variable
\* read as they did before the loop
C14_NoLeakAfterEnd ==
    (lines = C14_Template /\ run.status = "returned") => run.result = C13_Expected

-----------------------------------------------------------------------------
(* Context, children and errors across components, checked under SpecTree  *)

\* the activation at position i is still on the stack after the step
C15_Stays(i) ==
    /\ i <= Len(stack')
    /\ i = Len(stack) => stack'[i].kind = stack[i].kind

\* a is a prefix of b
C15_Prefix(a, b) == Len(a) <= Len(b) /\ SubSeq(b, 1, Len(a)) = a

C17_IncludeWithoutChildren ==
    [][phase = "rendering" /\ Top.code # <<>> /\ NextIns.op = "include"
       /\ Len(stack') > Len(stack)
         => ~stack'[Len(stack')].data.hasChildren]_vars

\* the top-level caller has received the error e: thrown by renderPage or
\* handed to renderFile's callback
C18_Delivered(e, result, cbs) ==
    \/ result.status = "threw" /\ result.error = e
    \/ cbs # <<>> /\ cbs[Len(cbs)].err = e

\* C18: an error that is neither a TmlCompileError nor a TmlRenderError and
\* leaves a routine becomes the TmlRenderError of its message, the path of
\* that routine's component and line 0; a structured error stays as it is
\* through every enclosing activation; an error on its way up is never
\* dropped: the render does not resume, and when the stack is empty the
\* top-level caller receives that very error.  The page wrap (which includes
\* boom, whose routine reads an undefined name) fails with boom's
\* TmlRenderError, and the page incbad with the TmlCompileError of bad
C18_ErrorsWrappedOncePropagated ==
    /\ [][phase = "unwinding" /\ stack # <<>> /\ Top.kind = "render"
          /\ ~IsStructured(error)
            => error' = [name |-> "TmlRenderError",
                         message |-> error.message \o " at " \o Top.path \o ":0",
                         filePath |-> Top.path, line |-> 0]]_vars
    /\ [][phase = "unwinding" /\ stack # <<>> /\ IsStructured(error)
            => error' = error /\ phase' = "unwinding"]_vars
    /\ [][phase = "unwinding"
            => \/ phase' = "unwinding" /\ error' # NoError /\ Len(stack') < Len(stack)
               \/ stack = <<>> /\ phase' = "idle" /\ C18_Delivered(error, pageResult', callbacks')]_vars
    /\ []((page.path = "wrap" /\ pageResult.status = "threw")
            => pageResult.error = TmlRenderError("x is not defined", "boom", 0))
    /\ []((page.path = "incbad" /\ pageResult.status = "threw" /\ ~cacheEnabled)
            => pageResult.error.name = "TmlCompileError"
               /\ pageResult.error.filePath = "bad")

\* renderPage("wrap") has thrown the error wrapped at boom, unchanged by wrap
C18_Witness ==
    /\ page.path = "wrap"
    /\ pageResult.status = "threw"
    /\ pageResult.error.name = "TmlRenderError"
    /\ pageResult.error.filePath = "boom"
    /\ pageResult.error.line = 0

\* the error says that a template file is missing or outside the views directory
C19_NoTemplate(e) ==
    \/ StartsWith(e.message, "Template not found: ")
    \/ StartsWith(e.message, "Path traversal detected: ")

\* C19: the error a caller of renderPage or renderFile receives for a
\* component path without a template file or outside the views directory,
\* at the top level or below, is a TmlRenderError
C19_NoTemplateIsRenderError ==
    /\ (pageResult.status = "threw" /\ C19_NoTemplate(pageResult.error))
            => pageResult.error.name = "TmlRenderError"
    /\ \A i \in 1..Len(callbacks) :
            C19_NoTemplate(callbacks[i].err) => callbacks[i].err.name = "TmlRenderError"

-----------------------------------------------------------------------------
(* parse(source) (parser.ts 1-17), checked under SpecParse                   *)

\* the parts a block's content is put together from
MaxParts == 1

BlockKinds == {"template", "style", "script"}
OpenTag(kind) == "<" \o kind \o ">"
CloseTag(kind) == "</" \o kind \o ">"

\* source.match(/<kind>([\s\S]*?)<\/kind>/): the leftmost opening tag that
\* has a closing tag after it, up to the first such closing tag; group 1
FirstMatch(source, kind) ==
    LET open == IndexOf(source, OpenTag(kind))
        close == IF open = -1 THEN -1
                 ELSE IndexOfFrom(source, CloseTag(kind), open + Len(OpenTag(kind)))
    IN IF open = -1 \/ close = -1 THEN [matched |-> FALSE, group |-> ""]
       ELSE [matched |-> TRUE,
             group |-> Slice(source, open + Len(OpenTag(kind)), close)]

\* match ? match[1].trim() : ""
BlockOf(source, kind) ==
    LET m == FirstMatch(source, kind)
    IN IF m.matched THEN Trim(m.group) ELSE ""

\* parse(source)
Parse(source) ==
    [template |-> BlockOf(source, "template"),
     style |-> BlockOf(source, "style"),
     script |-> BlockOf(source, "script")]

\* the three kinds in every order
BlockOrders ==
    {o \in [1..3 -> BlockKinds] : \A i, j \in 1..3 : o[i] = o[j] => i = j}

ContentParts == {"x", " y\n", "<template>t</template>", "<style>s</style>",
                 "<script>j</script>"}

RECURSIVE ContentsUpTo(_)
ContentsUpTo(n) ==
    IF n = 0 THEN {""}
    ELSE ContentsUpTo(n - 1) \cup {c \o part : c \in ContentsUpTo(n - 1), part \in ContentParts}

\* what can stand between <kind> and </kind>: no </kind>
ContentsOf(kind) == {c \in ContentsUpTo(MaxParts) : IndexOf(c, CloseTag(kind)) = -1}

\* a block as written in a source: left out, or with a content
BlocksOf(kind) ==
    {[present |-> FALSE, content |-> ""]}
        \cup {[present |-> TRUE, content |-> c] : c \in ContentsOf(kind)}

BlockText(kind, block) ==
    IF block.present THEN OpenTag(kind) \o block.content \o CloseTag(kind) ELSE ""

\* a source document: the blocks in the given order, `outside` around them
SourceOf(order, blocks, outside) ==
    outside \o BlockText(order[1], blocks[order[1]]) \o outside
            \o BlockText(order[2], blocks[order[2]]) \o outside
            \o BlockText(order[3], blocks[order[3]]) \o outside

\* the three blocks of a parse result, written with the same delimiters
Rebuilt(order, result) ==
    SourceOf(order, [k \in BlockKinds |-> [present |-> TRUE, content |-> result[k]]], "")

OutsideTexts == {"", "\nout\n"}

InitParse ==
    /\ Configured
    /\ ~cacheEnabled
    /\ collector = NewCollector
    /\ inlineAssets = NoBuild
    /\ injected = NoInjection
    /\ run = NoRun
    /\ awaiting = <<>>
    /\ scan = NoScan
    /\ lines = <<>>
    /\ lineIndex = 0
    /\ blockStack = <<>>
    /\ codeParts = <<>>
    /\ inlineJsBuffer = [open |-> FALSE, parts |-> <<>>]
    /\ inlineJsStartLine = 0
    /\ compiled = NotCompiled
    /\ \E order \in BlockOrders, outside \in OutsideTexts,
          t \in BlocksOf("template"), st \in BlocksOf("style"), sc \in BlocksOf("script") :
            LET blocks == [template |-> t, style |-> st, script |-> sc]
            IN parseCall = [source |-> SourceOf(order, blocks, outside), done |-> FALSE,
                            result |-> NoBlocks,
                            written |-> [order |-> order, blocks |-> blocks,
                                         outside |-> outside],
                            pass |-> 1, first |-> NoBlocks]

\* parse(source) is called and returns
ParseSource ==
    /\ ~parseCall.done
    /\ parseCall' = [parseCall EXCEPT !.done = TRUE, !.result = Parse(parseCall.source),
                                      !.first = IF parseCall.pass = 1
                                                THEN Parse(parseCall.source) ELSE @]
    /\ UNCHANGED <<engineVars, assetVars, compileVars, run, awaiting, scan>>

\* the caller writes the blocks of the result down again, to parse them
ParseRebuilt ==
    /\ parseCall.done
    /\ parseCall.pass = 1
    /\ parseCall' = [parseCall EXCEPT !.source = Rebuilt(parseCall.written.order,
                                                         parseCall.result),
                                      !.done = FALSE, !.pass = 2]
    /\ UNCHANGED <<engineVars, assetVars, compileVars, run, awaiting, scan>>

NextParse ==
    \/ ParseSource
    \/ ParseRebuilt

SpecParse == InitParse /\ [][NextParse]_vars

\* the source has a block of every kind
C20_AllWritten == \A k \in BlockKinds : parseCall.written.blocks[k].present

\* C20: a parse of a source with a template, a style and a script block, in
\* any order and with any contents, returns for every kind the trimmed
\* content of that kind's block, whatever stands outside the blocks, and the
\* parse of the three returned blocks written down again returns the same;
\* a kind whose block the source leaves out comes back as ""
C20_ParseRoundTrip ==
    /\ (parseCall.done /\ parseCall.pass = 1)
            => \A k \in BlockKinds :
                 parseCall.result[k] = IF parseCall.written.blocks[k].present
                                       THEN Trim(parseCall.written.blocks[k].content)
                                       ELSE ""
    /\ (parseCall.done /\ parseCall.pass = 2) => parseCall.result = parseCall.first

-----------------------------------------------------------------------------
(* Interpolation, checked under SpecRun *)

C21_Entities == <<"&amp;", "&lt;", "&gt;", "&quot;", "&#39;">>
C21_Specials == <<"&", "<", ">", "\"", "'">>

\* the string whose escaped form is str: every entity read back as its
\* character, from left to right
RECURSIVE C21_Decoded(_)
C21_Decoded(str) ==
    IF str = "" THEN ""
    ELSE LET hits == {i \in 1..5 : StartsWith(str, C21_Entities[i])}
         IN IF hits = {} THEN CharAt(str, 0) \o C21_Decoded(SliceFrom(str, 1))
            ELSE LET i == CHOOSE i \in hits : TRUE
                 IN C21_Specials[i] \o C21_Decoded(SliceFrom(str, Len(C21_Entities[i])))

\* number of occurrences of the character c in str
C21_Count(str, c) == Cardinality({i \in 1..Len(str) : SubSeq(str, i, i) = c})

\* e is str with each of & < > " ' replaced once by its entity and nothing
\* else changed
C21_IsEscapeOf(e, str) ==
    /\ C21_Decoded(e) = str
    /\ \A c \in {"<", ">", "\"", "'"} : C21_Count(e, c) = 0
    /\ C21_Count(e, "&") = C21_Count(str, "&") + C21_Count(str, "<") + C21_Count(str, ">")
                            + C21_Count(str, "\"") + C21_Count(str, "'")
    /\ Len(e) = Len(str) + 4 * C21_Count(str, "&") + 3 * C21_Count(str, "<")
                + 3 * C21_Count(str, ">") + 5 * C21_Count(str, "\"")
                + 4 * C21_Count(str, "'")

\* what {{ v }} stands for
C21_Escaped(v) == IF v.type \in {"undefined", "null"} THEN "" ELSE v.str

\* the routine of a template of the interpolation family has returned
C21_Returned(template) == lines = template /\ run.status = "returned"

\* C21: {{ v }} renders v's string with each & < > " ' replaced once by its
\* entity and every other character kept, and "" for null and undefined;
\* {{{ v }}} renders v's string as it is, wherever it stands in the line
C21_EscapedOnceRawUntouched ==
    /\ C21_Returned(<<"{{ v }}">>)
            => \E e \in {Slice(run.result, 0, Len(run.result) - 1)} :
                  /\ run.result = e \o "\n"
                  /\ C21_IsEscapeOf(e, C21_Escaped(run.input.v))
    /\ C21_Returned(<<"{{{ v }}}">>) => run.result = run.input.v.str \o "\n"
    /\ C21_Returned(<<"<b>{{ v }}|{{{ v }}}</b>">>)
            => \E e \in {Slice(run.result, 3, Len(run.result) - 6 - Len(run.input.v.str))} :
                  /\ run.result = "<b>" \o e \o "|" \o run.input.v.str \o "</b>\n"
                  /\ C21_IsEscapeOf(e, C21_Escaped(run.input.v))
    /\ C21_Returned(<<"{{{ v }}}{{{ v }}}">>)
            => run.result = run.input.v.str \o run.input.v.str \o "\n"

-----------------------------------------------------------------------------
(* Page renders on one engine while renderFile calls are suspended, checked *)
(* under SpecConcurrent                                                     *)

-----------------------------------------------------------------------------
(* The asset build cache over many collectors, checked under SpecCache *)

\* the capacity the changelog gives for the cache
AssetCacheLimit == 100

\* C23: the asset build cache never holds more than 100 entries, whatever
\* collectors buildInlineAssets was called with
C23_CacheBounded == MapSize(assetCache) <= AssetCacheLimit

\* C29: the asset tags buildInlineAssets returns are the ones built from the
\* contents of the collector it was called with, whether they come from the
\* cache or not: no collector with other contents has the same cache key
C29_AssetsOfOwnCollector ==
    inlineAssets # NoBuild
        => inlineAssets.assets = [headTag |-> BuildHeadTag(inlineAssets.collector.headTags),
                                  cssTag |-> BuildCssTag(inlineAssets.collector.styles),
                                  jsTag |-> BuildJsTag(inlineAssets.collector.scripts)]

-----------------------------------------------------------------------------
(* The interpolation scanner on one line, checked under SpecScan *)

\* position i of str opens a span: "{{", "@include(" after no word character,
\* or "@children" between no word characters
C24_IsOpener(str, i) ==
    \/ StartsWith(SliceFrom(str, i), "{{")
    \/ /\ StartsWith(SliceFrom(str, i), "@include(")
       /\ (i = 0 \/ CharAt(str, i - 1) \notin WordChars)
    \/ /\ StartsWith(SliceFrom(str, i), "@children")
       /\ (i = 0 \/ CharAt(str, i - 1) \notin WordChars)
       /\ (i + 9 >= Len(str) \/ CharAt(str, i + 9) \notin WordChars)

C24_Openers(str) == {i \in 0..(Len(str) - 1) : C24_IsOpener(str, i)}

\* the kind of the span opening at i: raw where "{{{" and "{{" both start
C24_KindAt(str, i) ==
    IF StartsWith(SliceFrom(str, i), "{{{") THEN "raw"
    ELSE IF StartsWith(SliceFrom(str, i), "{{") THEN "escaped"
    ELSE IF StartsWith(SliceFrom(str, i), "@include(") THEN "include"
    ELSE "children"

\* the span opening at i has its closing token further on in str
C24_Closed(str, i) ==
    CASE C24_KindAt(str, i) = "raw" -> IndexOf(SliceFrom(str, i + 3), "}}}") # -1
      [] C24_KindAt(str, i) = "escaped" -> IndexOf(SliceFrom(str, i + 2), "}}") # -1
      [] C24_KindAt(str, i) = "include" -> FindClosingParen(str, i + 9) # -1
      [] OTHER -> TRUE

\* a segment as it is written in a line, and a string without its blanks
C24_Written(segment) ==
    CASE segment.type = "text" -> segment.value
      [] segment.type = "raw" -> "{{{" \o segment.value \o "}}}"
      [] segment.type = "escaped" -> "{{" \o segment.value \o "}}"
      [] segment.type = "include" ->
            "@include(" \o segment.path
              \o (IF segment.props.defined THEN "," \o segment.props.str ELSE "") \o ")"
      [] OTHER -> "@children"

C24_NoBlanks(str) == ReplaceChar(str, " ", "")

C24_TextBefore(str, i) == IF i > 0 THEN <<TextSegment(Slice(str, 0, i))>> ELSE <<>>

\* the segments a turn of the loop pushed
C24_Pushed == SubSeq(scan'.segments, Len(scan.segments) + 1, Len(scan'.segments))

\* one turn on `remaining`, whose first opener is at p (-1 for none)
C24_Turn(remaining, p) ==
    /\ Len(scan'.segments) >= Len(scan.segments)
    /\ SubSeq(scan'.segments, 1, Len(scan.segments)) = scan.segments
    /\ p = -1 => C24_Pushed = <<TextSegment(remaining)>> /\ scan'.done
    /\ p # -1 /\ ~C24_Closed(remaining, p)
          => /\ C24_Pushed = C24_TextBefore(remaining, p)
                               \o <<TextSegment(SliceFrom(remaining, p))>>
             /\ scan'.done
    /\ p # -1 /\ C24_Closed(remaining, p)
          => /\ Len(C24_Pushed) = Len(C24_TextBefore(remaining, p)) + 1
             /\ SubSeq(C24_Pushed, 1, Len(C24_Pushed) - 1) = C24_TextBefore(remaining, p)
             /\ C24_Pushed[Len(C24_Pushed)].type = C24_KindAt(remaining, p)
             /\ Len(scan'.remaining) < Len(remaining)
             /\ EndsWith(remaining, scan'.remaining)
             /\ scan'.done = (scan'.remaining = "")

\* one of the ways a turn ends applies to what is left of the line
C24_CanTurn ==
    \/ ~ScanHasCandidates(scan.remaining)
    \/ ScanClose(scan.remaining) = -1
    \/ ScanKind(scan.remaining) \in {"raw", "escaped", "include", "children"}

\* C24: every turn of the scan takes the span that opens first in what is
\* left of the line, as a raw span where "{{{" and "{{" open together; an
\* opener without its closing token makes the rest of the line one text
\* segment and ends the scan; every other turn shortens what is left, so the
\* scan ends; a scan not yet at its end can take a turn; and the segments of
\* a finished scan, written one after the other, are the line again, blanks
\* aside
C24_EarliestSpanWins ==
    /\ [](~scan.done => C24_CanTurn)
    /\ [](scan.done => /\ scan.segments = ParseInterpolations(scan.text, <<>>)
                       /\ C24_NoBlanks(Join([i \in 1..Len(scan.segments) |->
                                                C24_Written(scan.segments[i])], ""))
                            = C24_NoBlanks(scan.text))
    /\ [][C24_Turn(scan.remaining,
                   IF C24_Openers(scan.remaining) = {} THEN -1
                   ELSE Min(C24_Openers(scan.remaining)))]_scan

\* "{{" opens before "{{{" and is taken first; the "{{{" that follows has no
\* "}}}" and is text
C24_Witness ==
    /\ scan.done
    /\ scan.text = "{{a}}{{{"
    /\ scan.segments = <<Segment("escaped", "a", "", Undefined), TextSegment("{{{")>>

-----------------------------------------------------------------------------
(* The closing parenthesis of an inline @include, checked under SpecScan *)

\* the scan the documentation describes, at index i of str inside the
\* contexts of `open`, innermost last: "(" and "{" for code in parentheses
\* and braces, "$" for code in ${ } of a template literal, a quote or the
\* backtick for text in a literal.  `commas` is TRUE to find the first comma
\* outside every context, FALSE to find the parenthesis that closes the
\* include; -1 is none
RECURSIVE C25_Scan(_, _, _, _)
C25_Scan(str, i, open, commas) ==
    LET ch == CharAt(str, i)
        top == IF open = <<>> THEN "" ELSE open[Len(open)]
        pop == SubSeq(open, 1, Len(open) - 1)
    IN IF i >= Len(str) THEN -1
       ELSE IF top \in {"'", "\""}
       THEN IF ch = "\\" THEN C25_Scan(str, i + 2, open, commas)
            ELSE C25_Scan(str, i + 1, IF ch = top THEN pop ELSE open, commas)
       ELSE IF top = BackTick
       THEN IF ch = "\\" THEN C25_Scan(str, i + 2, open, commas)
            ELSE IF StartsWith(SliceFrom(str, i), "${")
            THEN C25_Scan(str, i + 2, Append(open, "$"), commas)
            ELSE C25_Scan(str, i + 1, IF ch = BackTick THEN pop ELSE open, commas)
       ELSE IF ch \in {"'", "\"", BackTick, "(", "{"}
       THEN C25_Scan(str, i + 1, Append(open, ch), commas)
       ELSE IF ch = ")" /\ top = "" /\ ~commas THEN i
       ELSE IF ch = "," /\ top = "" /\ commas THEN i
       ELSE IF (ch = ")" /\ top = "(") \/ (ch = "}" /\ top \in {"{", "$"})
       THEN C25_Scan(str, i + 1, pop, commas)
       ELSE C25_Scan(str, i + 1, open, commas)

\* the index of the parenthesis that closes the "@include(" at p, and the
\* path and props between the two, split at the first comma outside every
\* context
C25_Close(str, p) == C25_Scan(str, p + 9, <<>>, FALSE)

C25_Args(content) == IncludeArgs(content, C25_Scan(content, 0, <<>>, TRUE))

\* the line of the scan has an inline include as its first span, at p
C25_IncludeFirst(p) ==
    /\ scan.done
    /\ C24_Openers(scan.text) # {}
    /\ p = Min(C24_Openers(scan.text))
    /\ C24_KindAt(scan.text, p) = "include"

\* C25: for a line whose first span is an inline @include( with a balancing
\* closing parenthesis - parentheses inside nested parentheses, braces,
\* quoted strings and template literals not counted - the include segment
\* has the path and the props written between the two, split at the first
\* comma that is inside none of these, and the scan goes on after that
\* parenthesis
C25_BalancedParenthesis ==
    \A p \in 0..(Len(scan.text) - 1) :
        C25_IncludeFirst(p) /\ C25_Close(scan.text, p) # -1
            => \E n \in {Len(C24_TextBefore(scan.text, p)) + 1} :
                  /\ Len(scan.segments) >= n
                  /\ scan.segments[n]
                       = Segment("include", "",
                                 C25_Args(Slice(scan.text, p + 9,
                                                C25_Close(scan.text, p))).path,
                                 C25_Args(Slice(scan.text, p + 9,
                                                C25_Close(scan.text, p))).props)
                  /\ SubSeq(scan.segments, n + 1, Len(scan.segments))
                       = ParseInterpolations(SliceFrom(scan.text,
                                                       C25_Close(scan.text, p) + 1), <<>>)

-----------------------------------------------------------------------------
(* Inline script lines (compiler.ts 280-292, 419-441), checked under        *)
(* SpecCompile                                                              *)

\* the loop is at a line
C26_AtLine == compiled.status = "running" /\ lineIndex < Len(lines)

\* ... that starts with the opener, outside a <% block
C26_AtOpener ==
    /\ C26_AtLine
    /\ ~inlineJsBuffer.open
    /\ StartsWith(Trim(lines[lineIndex + 1]), "<%")

\* the closer stands somewhere after the opener of t
C26_HasCloser(t) == IndexOf(SliceFrom(t, 2), "%>") # -1

\* the closer ends t, after at least one character of script
C26_EndsWithCloser(t) == Len(t) > 4 /\ EndsWith(t, "%>")

\* a line starting with the opener is one script statement where `single`
\* holds of it, and starts buffering with what follows the opener otherwise;
\* the block stack stays as it is
C26_OpenerStep(t, single) ==
    /\ lineIndex' = lineIndex + 1
    /\ blockStack' = blockStack
    /\ compiled' = compiled
    /\ IF single
       THEN /\ ~inlineJsBuffer'.open
            /\ Len(codeParts') = Len(codeParts) + 1
            /\ StartsWith(codeParts'[Len(codeParts')],
                          "/* line " \o ToString(lineIndex + 1) \o " */ ")
       ELSE /\ inlineJsBuffer'.open
            /\ inlineJsBuffer'.parts = (IF Trim(SliceFrom(t, 2)) = "" THEN <<>>
                                        ELSE <<Trim(SliceFrom(t, 2))>>)
            /\ inlineJsStartLine' = lineIndex + 1
            /\ codeParts' = codeParts

\* inside a <% block a line is kept as it is written, whatever it says, and
\* the block stack stays as it is; a line ending in the closer ends the
\* block, whose lines become one statement
C26_BufferStep(l) ==
    /\ lineIndex' = lineIndex + 1
    /\ blockStack' = blockStack
    /\ compiled' = compiled
    /\ IF EndsWith(Trim(l), "%>")
       THEN /\ ~inlineJsBuffer'.open
            /\ codeParts'
                 = Append(codeParts,
                          "/* line " \o ToString(inlineJsStartLine) \o " */ "
                            \o Join(inlineJsBuffer.parts
                                      \o (IF Trim(Slice(Trim(l), 0, Len(Trim(l)) - 2)) = ""
                                          THEN <<>>
                                          ELSE <<Trim(Slice(Trim(l), 0, Len(Trim(l)) - 2))>>),
                                    "\n"))
       ELSE /\ inlineJsBuffer' = [open |-> TRUE, parts |-> Append(inlineJsBuffer.parts, l)]
            /\ codeParts' = codeParts

\* what holds of buffering and of the end of the template in both readings
C26_Buffering ==
    /\ [][C26_AtLine /\ inlineJsBuffer.open => C26_BufferStep(lines[lineIndex + 1])]_vars
    /\ [][compiled.status = "running" /\ lineIndex = Len(lines) /\ inlineJsBuffer.open
            => compiled' = [status |-> "threw",
                            error |-> [name |-> "TmlCompileError",
                                       message |-> "Unclosed <% block - missing %> at t:"
                                                   \o ToString(inlineJsStartLine),
                                       filePath |-> "t", line |-> inlineJsStartLine]]]_vars

\* C26 as stated: a line that starts with the opener and has the closer
\* anywhere after it is a single-line script and starts no buffering; without
\* the closer it starts buffering; buffered lines are kept verbatim and are no
\* directives until a line ending in the closer; the end of the template
\* inside a block fails with 'Unclosed <% block - missing %>'
C26_SingleLineIfCloserOnLine ==
    /\ [][C26_AtOpener => C26_OpenerStep(Trim(lines[lineIndex + 1]),
                                         C26_HasCloser(Trim(lines[lineIndex + 1])))]_vars
    /\ C26_Buffering

\* C26, amended: the line is a single-line script when the closer ends it
\* after at least one character of script; any other line starting with the
\* opener starts buffering, a closer in its middle included
C26_SingleLineIfCloserEndsLine ==
    /\ [][C26_AtOpener => C26_OpenerStep(Trim(lines[lineIndex + 1]),
                                         C26_EndsWithCloser(Trim(lines[lineIndex + 1])))]_vars
    /\ C26_Buffering

\* the closer in the middle of line 1 did not end the script: @if(a) was
\* buffered, no block was opened, and line 3 ended the block
C26_Witness ==
    /\ lines = <<"<% a %> b", "@if(a)", "g() %>">>
    /\ lineIndex = 3
    /\ blockStack = <<>>
    /\ ~inlineJsBuffer.open
    /\ codeParts[Len(codeParts)] = "/* line 1 */ a %> b\n@if(a)\ng()"

-----------------------------------------------------------------------------
(* @component blocks (engine.ts 515-529, compiler.ts 379-399), checked      *)
(* under SpecTree                                                           *)

\* the children closure of an @component block has run to its end
C27_BlockDone ==
    /\ phase = "rendering"
    /\ stack # <<>>
    /\ Top.kind = "childrenFn"
    /\ Top.code = <<>>

\* the outputs of the activations below index i are what they were
C27_OutputsKept(i) == \A j \in 1..(i - 1) : stack'[j].out = stack[j].out

-----------------------------------------------------------------------------
(* @head blocks of one page render (engine.ts 531-536, 701-712), checked    *)
(* under SpecTree                                                           *)

\* the head contents a collector holds, trimmed
C28_Held(col) == {Trim(MapValues(col.headTags)[i]) : i \in 1..MapSize(col.headTags)}

\* the closure of an @head block has run to its end with content
C28_HeadDone ==
    /\ phase = "rendering"
    /\ stack # <<>>
    /\ Top.kind = "headFn"
    /\ Top.code = <<>>
    /\ Trim(Top.out) # ""

\* C28: the content of every @head block executed in a page render is held
\* by the page's collector from then on, next to what the collector held
\* before, and is part of the head tag built for the page: for heads, with
\* its two @head blocks and tag rendered twice with different content, the
\* head tag holds <a>, <b> and both contents of tag
C28_EveryHeadCollected ==
    /\ [][C28_HeadDone
            => C28_Held(collector) \cup {Trim(Top.out)} \subseteq C28_Held(collector')]_vars
    /\ [](page.path = "heads" /\ mode = "file" /\ phase = "idle" /\ callbacks # <<>>
            => /\ callbacks[1].err = NoError
               /\ inlineAssets.assets.headTag = "<a>\n<b>\n<t>\n<t>\ndark")

-----------------------------------------------------------------------------
(* The callback of renderFile (engine.ts 438-457), checked under            *)
(* SpecCallback                                                             *)

\* C30: a renderFile call has invoked its callback at most once while it
\* runs and exactly once when it is over, with (null, html) or with an
\* error, whether the callback returns or throws
C30_CallbackOnce ==
    /\ Len(callbacks) <= 1
    /\ phase = "idle" /\ renders > 0 => Len(callbacks) = 1
    /\ \A i, j \in 1..Len(callbacks) :
          ~(callbacks[i].err = NoError /\ callbacks[j].err # NoError)

====
